---- MODULE Spec2Model ----
(***************************************************************************)
(* A model of the analyzer-configuration resolver of                       *)
(* lib/StaticAnalyzer/Core/AnalyzerOptions.cpp.                            *)
(*                                                                         *)
(* A string (StringRef, std::string) is a sequence of one-character        *)
(* strings, so that key building (Twine concatenation), rfind/substr,      *)
(* startswith and the integer parser act on characters as the code does.   *)
(* An llvm::Optional<T> is <<>> (no value) or <<v>>.                       *)
(* The source is built with or without NDEBUG.  Without it a failed        *)
(* assert() ends the process, which is the "fatal" outcome of a call.      *)
(* With it assert() expands to nothing and execution goes on: getValue()   *)
(* of an empty Optional<> then reads the storage of the member, which      *)
(* nothing has initialized, and any value of the type may come back.       *)
(* A StringRef owns no characters: the one getOptionAsString returns       *)
(* points into the std::string of the Config entry, and an                 *)
(* Optional<StringRef> that caches it shows whatever that buffer holds     *)
(* when it is read.                                                        *)
(***************************************************************************)
EXTENDS Integers, Sequences, FiniteSets, TLC

VARIABLES
  Config,   \* AnalyzerOptions::Config, the ConfigTable (StringMap<std::string>)
  cells,    \* the Optional<> members of AnalyzerOptions, by member name
  views,    \* for each Optional<StringRef>: the Config entry its StringRef points into
  dirs,     \* the paths for which llvm::sys::fs::is_directory answers true
  pc,       \* "running", or "aborted" once an assertion has failed
  call,     \* the last call made on the session and how it ended
  first,    \* one earlier call, remembered to compare later calls with
  budget,   \* the number of calls the session may still make
  NDEBUG,   \* TRUE when the build defines NDEBUG: assert() expands to nothing
  StaticAnalyzerChecks  \* the static table of checker names (Checkers.inc)

vars == <<Config, cells, views, dirs, pc, call, first, budget, NDEBUG, StaticAnalyzerChecks>>

(***************************************************************************)
(* Bounds of the model.                                                    *)
(***************************************************************************)
\* calls made on one session
MaxCalls == 3

\* calls made on one session of SpecTyped
MaxTypedCalls == 2

\* entries of the longest table of checker names
MaxChecks == 3

\* components of the longest well-formed checker name
MaxDepth == 3

(***************************************************************************)
(* String literals of the source.                                          *)
(***************************************************************************)
\* "debug."
s_debug_dot ==
  <<"d","e","b","u","g",".">>
\* "alpha."
s_alpha_dot ==
  <<"a","l","p","h","a",".">>
\* "mode"
s_mode ==
  <<"m","o","d","e">>
\* "deep"
s_deep ==
  <<"d","e","e","p">>
\* "shallow"
s_shallow ==
  <<"s","h","a","l","l","o","w">>
\* "exploration_strategy"
s_exploration_strategy ==
  <<"e","x","p","l","o","r","a","t","i","o","n","_","s","t","r","a","t","e","g","y">>
\* "dfs"
s_dfs ==
  <<"d","f","s">>
\* "bfs"
s_bfs ==
  <<"b","f","s">>
\* "unexplored_first"
s_unexplored_first ==
  <<"u","n","e","x","p","l","o","r","e","d","_","f","i","r","s","t">>
\* "unexplored_first_queue"
s_unexplored_first_queue ==
  <<"u","n","e","x","p","l","o","r","e","d","_","f","i","r","s","t","_","q","u","e","u","e">>
\* "unexplored_first_location_queue"
s_unexplored_first_location_queue ==
  <<"u","n","e","x","p","l","o","r","e","d","_","f","i","r","s","t","_","l","o","c","a","t","i","o","n","_","q","u","e","u","e">>
\* "bfs_block_dfs_contents"
s_bfs_block_dfs_contents ==
  <<"b","f","s","_","b","l","o","c","k","_","d","f","s","_","c","o","n","t","e","n","t","s">>
\* "ipa"
s_ipa ==
  <<"i","p","a">>
\* "none"
s_none ==
  <<"n","o","n","e">>
\* "basic-inlining"
s_basic_inlining ==
  <<"b","a","s","i","c","-","i","n","l","i","n","i","n","g">>
\* "inlining"
s_inlining ==
  <<"i","n","l","i","n","i","n","g">>
\* "dynamic"
s_dynamic ==
  <<"d","y","n","a","m","i","c">>
\* "dynamic-bifurcate"
s_dynamic_bifurcate ==
  <<"d","y","n","a","m","i","c","-","b","i","f","u","r","c","a","t","e">>
\* "c++-inlining"
s_cxx_inlining ==
  <<"c","+","+","-","i","n","l","i","n","i","n","g">>
\* "constructors"
s_constructors ==
  <<"c","o","n","s","t","r","u","c","t","o","r","s">>
\* "destructors"
s_destructors ==
  <<"d","e","s","t","r","u","c","t","o","r","s">>
\* "methods"
s_methods ==
  <<"m","e","t","h","o","d","s">>
\* "true"
s_true ==
  <<"t","r","u","e">>
\* "false"
s_false ==
  <<"f","a","l","s","e">>
\* "cfg-temporary-dtors"
s_cfg_temporary_dtors ==
  <<"c","f","g","-","t","e","m","p","o","r","a","r","y","-","d","t","o","r","s">>
\* "cfg-implicit-dtors"
s_cfg_implicit_dtors ==
  <<"c","f","g","-","i","m","p","l","i","c","i","t","-","d","t","o","r","s">>
\* "cfg-lifetime"
s_cfg_lifetime ==
  <<"c","f","g","-","l","i","f","e","t","i","m","e">>
\* "cfg-loopexit"
s_cfg_loopexit ==
  <<"c","f","g","-","l","o","o","p","e","x","i","t">>
\* "cfg-rich-constructors"
s_cfg_rich_constructors ==
  <<"c","f","g","-","r","i","c","h","-","c","o","n","s","t","r","u","c","t","o","r","s">>
\* "cfg-scopes"
s_cfg_scopes ==
  <<"c","f","g","-","s","c","o","p","e","s">>
\* "c++-stdlib-inlining"
s_cxx_stdlib_inlining ==
  <<"c","+","+","-","s","t","d","l","i","b","-","i","n","l","i","n","i","n","g">>
\* "c++-template-inlining"
s_cxx_template_inlining ==
  <<"c","+","+","-","t","e","m","p","l","a","t","e","-","i","n","l","i","n","i","n","g">>
\* "c++-allocator-inlining"
s_cxx_allocator_inlining ==
  <<"c","+","+","-","a","l","l","o","c","a","t","o","r","-","i","n","l","i","n","i","n","g">>
\* "c++-container-inlining"
s_cxx_container_inlining ==
  <<"c","+","+","-","c","o","n","t","a","i","n","e","r","-","i","n","l","i","n","i","n","g">>
\* "c++-shared_ptr-inlining"
s_cxx_shared_ptr_inlining ==
  <<"c","+","+","-","s","h","a","r","e","d","_","p","t","r","-","i","n","l","i","n","i","n","g">>
\* "c++-temp-dtor-inlining"
s_cxx_temp_dtor_inlining ==
  <<"c","+","+","-","t","e","m","p","-","d","t","o","r","-","i","n","l","i","n","i","n","g">>
\* "objc-inlining"
s_objc_inlining ==
  <<"o","b","j","c","-","i","n","l","i","n","i","n","g">>
\* "suppress-null-return-paths"
s_suppress_null_return_paths ==
  <<"s","u","p","p","r","e","s","s","-","n","u","l","l","-","r","e","t","u","r","n","-","p","a","t","h","s">>
\* "avoid-suppressing-null-argument-paths"
s_avoid_suppressing_null_argument_paths ==
  <<"a","v","o","i","d","-","s","u","p","p","r","e","s","s","i","n","g","-","n","u","l","l","-","a","r","g","u","m","e","n","t","-","p","a","t","h","s">>
\* "suppress-inlined-defensive-checks"
s_suppress_inlined_defensive_checks ==
  <<"s","u","p","p","r","e","s","s","-","i","n","l","i","n","e","d","-","d","e","f","e","n","s","i","v","e","-","c","h","e","c","k","s">>
\* "suppress-c++-stdlib"
s_suppress_cxx_stdlib ==
  <<"s","u","p","p","r","e","s","s","-","c","+","+","-","s","t","d","l","i","b">>
\* "crosscheck-with-z3"
s_crosscheck_with_z3 ==
  <<"c","r","o","s","s","c","h","e","c","k","-","w","i","t","h","-","z","3">>
\* "report-in-main-source-file"
s_report_in_main_source_file ==
  <<"r","e","p","o","r","t","-","i","n","-","m","a","i","n","-","s","o","u","r","c","e","-","f","i","l","e">>
\* "stable-report-filename"
s_stable_report_filename ==
  <<"s","t","a","b","l","e","-","r","e","p","o","r","t","-","f","i","l","e","n","a","m","e">>
\* "serialize-stats"
s_serialize_stats ==
  <<"s","e","r","i","a","l","i","z","e","-","s","t","a","t","s">>
\* "elide-constructors"
s_elide_constructors ==
  <<"e","l","i","d","e","-","c","o","n","s","t","r","u","c","t","o","r","s">>
\* "ipa-always-inline-size"
s_ipa_always_inline_size ==
  <<"i","p","a","-","a","l","w","a","y","s","-","i","n","l","i","n","e","-","s","i","z","e">>
\* "max-inlinable-size"
s_max_inlinable_size ==
  <<"m","a","x","-","i","n","l","i","n","a","b","l","e","-","s","i","z","e">>
\* "graph-trim-interval"
s_graph_trim_interval ==
  <<"g","r","a","p","h","-","t","r","i","m","-","i","n","t","e","r","v","a","l">>
\* "max-symbol-complexity"
s_max_symbol_complexity ==
  <<"m","a","x","-","s","y","m","b","o","l","-","c","o","m","p","l","e","x","i","t","y">>
\* "max-times-inline-large"
s_max_times_inline_large ==
  <<"m","a","x","-","t","i","m","e","s","-","i","n","l","i","n","e","-","l","a","r","g","e">>
\* "min-cfg-size-treat-functions-as-large"
s_min_cfg_size_treat_functions_as_large ==
  <<"m","i","n","-","c","f","g","-","s","i","z","e","-","t","r","e","a","t","-","f","u","n","c","t","i","o","n","s","-","a","s","-","l","a","r","g","e">>
\* "max-nodes"
s_max_nodes ==
  <<"m","a","x","-","n","o","d","e","s">>
\* "faux-bodies"
s_faux_bodies ==
  <<"f","a","u","x","-","b","o","d","i","e","s">>
\* "prune-paths"
s_prune_paths ==
  <<"p","r","u","n","e","-","p","a","t","h","s">>
\* "cfg-conditional-static-initializers"
s_cfg_conditional_static_initializers ==
  <<"c","f","g","-","c","o","n","d","i","t","i","o","n","a","l","-","s","t","a","t","i","c","-","i","n","i","t","i","a","l","i","z","e","r","s">>
\* "inline-lambdas"
s_inline_lambdas ==
  <<"i","n","l","i","n","e","-","l","a","m","b","d","a","s">>
\* "widen-loops"
s_widen_loops ==
  <<"w","i","d","e","n","-","l","o","o","p","s">>
\* "unroll-loops"
s_unroll_loops ==
  <<"u","n","r","o","l","l","-","l","o","o","p","s">>
\* "notes-as-events"
s_notes_as_events ==
  <<"n","o","t","e","s","-","a","s","-","e","v","e","n","t","s">>
\* "expand-macros"
s_expand_macros ==
  <<"e","x","p","a","n","d","-","m","a","c","r","o","s">>
\* "aggressive-binary-operation-simplification"
s_aggressive_binary_operation_simplification ==
  <<"a","g","g","r","e","s","s","i","v","e","-","b","i","n","a","r","y","-","o","p","e","r","a","t","i","o","n","-","s","i","m","p","l","i","f","i","c","a","t","i","o","n">>
\* "eagerly-assume"
s_eagerly_assume ==
  <<"e","a","g","e","r","l","y","-","a","s","s","u","m","e">>
\* "ctu-dir"
s_ctu_dir ==
  <<"c","t","u","-","d","i","r">>
\* "experimental-enable-naive-ctu-analysis"
s_experimental_enable_naive_ctu_analysis ==
  <<"e","x","p","e","r","i","m","e","n","t","a","l","-","e","n","a","b","l","e","-","n","a","i","v","e","-","c","t","u","-","a","n","a","l","y","s","i","s">>
\* "ctu-index-name"
s_ctu_index_name ==
  <<"c","t","u","-","i","n","d","e","x","-","n","a","m","e">>
\* "externalFnMap.txt"
s_externalFnMap_txt ==
  <<"e","x","t","e","r","n","a","l","F","n","M","a","p",".","t","x","t">>

(***************************************************************************)
(* StringRef helpers.                                                      *)
(***************************************************************************)
\* StringRef::npos, as a 1-based position that no character has
npos ==
  0

\* Mutant of startswith: the last character of Prefix is not compared
startswith_AllButLast(Str, Prefix) ==
  /\ Len(Str) >= Len(Prefix) - 1
  /\ SubSeq(Str, 1, Len(Prefix) - 1) = SubSeq(Prefix, 1, Len(Prefix) - 1)

\* StringRef::startswith
startswith(Str, Prefix) ==
  /\ Len(Str) >= Len(Prefix)
  /\ SubSeq(Str, 1, Len(Prefix)) = Prefix

\* Mutant of rfind: the position of the first C, as StringRef::find gives
rfind_First(Str, C) ==
  LET Hits == {i \in 1..Len(Str) : Str[i] = C}
  IN  IF Hits = {} THEN npos ELSE CHOOSE i \in Hits : \A j \in Hits : i <= j

\* StringRef::rfind(char): the 1-based position of the last C in Str, or npos
rfind(Str, C) ==
  LET Hits == {i \in 1..Len(Str) : Str[i] = C}
  IN  IF Hits = {} THEN npos ELSE CHOOSE i \in Hits : \A j \in Hits : j <= i

\* StringRef::substr(0, Pos) for a 1-based Pos: the characters before Pos
substr0(Str, Pos) ==
  SubSeq(Str, 1, Pos - 1)

\* llvm::Optional
NoValue ==
  <<>>

Some(v) ==
  <<v>>

hasValue(O) ==
  O # <<>>

getValue(O) ==
  O[1]

(***************************************************************************)
(* Integers: int is 32 bits wide, unsigned is kept as two 16-bit halves    *)
(* because 2^32 - 1 does not fit the checker's integers.                   *)
(***************************************************************************)
INT_MAX ==
  2147483647

INT_MIN ==
  -INT_MAX - 1

Digits ==
  <<"0","1","2","3","4","5","6","7","8","9">>

IsDigit(c) ==
  \E i \in 1..10 : Digits[i] = c

DigitVal(c) ==
  (CHOOSE i \in 1..10 : Digits[i] = c) - 1

\* raw_ostream << int: the decimal digits of the magnitude of N <= 0
RECURSIVE FormatMagnitude(_)
FormatMagnitude(N) ==
  LET d    == (10 - (N % 10)) % 10
      rest == (N + d) \div 10
  IN  IF rest = 0 THEN <<Digits[d + 1]>>
      ELSE FormatMagnitude(rest) \o <<Digits[d + 1]>>

\* raw_ostream << int
FormatInt(N) ==
  IF N < 0 THEN <<"-">> \o FormatMagnitude(N) ELSE FormatMagnitude(-N)

\* consumeUnsignedInteger for radix 10, folded with the sign and the narrowing
\* to int: Acc is the value read so far, negated when Neg; the result is
\* <<error, value>>, error when a character is no digit or the value leaves
\* the range of int.
RECURSIVE ParseDigits(_, _, _)
ParseDigits(Str, Acc, Neg) ==
  IF Str = <<>> THEN <<FALSE, Acc>>
  ELSE IF ~IsDigit(Head(Str)) THEN <<TRUE, 0>>
  ELSE LET d == DigitVal(Head(Str))
       IN  IF Neg
           THEN IF Acc < (INT_MIN + d) \div 10 + (IF (INT_MIN + d) % 10 = 0 THEN 0 ELSE 1)
                THEN <<TRUE, 0>>
                ELSE ParseDigits(Tail(Str), Acc * 10 - d, Neg)
           ELSE IF Acc > (INT_MAX - d) \div 10
                THEN <<TRUE, 0>>
                ELSE ParseDigits(Tail(Str), Acc * 10 + d, Neg)

\* StringRef::getAsInteger(10, int &Res): <<error, value>>; on error Res is
\* left as it was, which the caller models
getAsInteger(Str) ==
  IF Str # <<>> /\ Head(Str) = "-"
  THEN IF Tail(Str) = <<>> THEN <<TRUE, 0>> ELSE ParseDigits(Tail(Str), 0, TRUE)
  ELSE IF Str = <<>> THEN <<TRUE, 0>> ELSE ParseDigits(Str, 0, FALSE)

\* Mutant of ToUnsigned: a negative int becomes 0
ToUnsigned_Clamped(n) ==
  IF n < 0 THEN <<0, 0>> ELSE <<n \div 65536, n % 65536>>

\* the conversion int -> unsigned: N modulo 2^32, as <<high half, low half>>
ToUnsigned(N) ==
  IF N >= 0 THEN <<N \div 65536, N % 65536>>
  ELSE LET m == (N + INT_MAX) + 1
       IN  <<(m \div 65536) + 32768, m % 65536>>

\* the conversion unsigned -> int (two's complement)
ToInt(U) ==
  IF U[1] < 32768 THEN U[1] * 65536 + U[2]
  ELSE ((U[1] - 32768) * 65536 + U[2] - INT_MAX) - 1

\* static StringRef toString(bool b)
toString(b) ==
  IF b THEN s_true ELSE s_false

(***************************************************************************)
(* The session while one call runs: S.Config and S.cells are the members,  *)
(* S.lookups the keys handed to Config.find / Config.insert so far in the  *)
(* call, S.fatal whether an assertion has failed.  Every member function   *)
(* maps a session to [st |-> the session after, ret |-> the value          *)
(* returned]; ret means nothing once st.fatal.                             *)
(***************************************************************************)
Ret(S, v) ==
  [st |-> S, ret |-> v]

\* a failed assert(): the process ends here
Abort(S) ==
  [st |-> [S EXCEPT !.fatal = TRUE], ret |-> <<>>]

Looked(S, Key) ==
  [S EXCEPT !.lookups = Append(@, Key)]

SetCell(S, V, val) ==
  [S EXCEPT !.cells[V] = Some(val)]

\* Mutant of StringMapInsert: the entry is written whether or not it exists
StringMapInsert_Overwrite(Cfg, Key, Val) ==
  (Key :> Val) @@ Cfg

\* StringMap::insert(std::make_pair(Key, Val)): an existing entry is kept
StringMapInsert(Cfg, Key, Val) ==
  Cfg @@ (Key :> Val)

\* The checker-scoped key of getCheckerOption: (Twine(CheckerName) + ":" + OptionName).str()
ScopedKey(CheckerName, OptionName) ==
  CheckerName \o <<":">> \o OptionName

\* Mutant of getCheckerOption: the loop goes on whatever SearchInParents is
RECURSIVE getCheckerOption_AlwaysParents(_, _, _, _, _)
getCheckerOption_AlwaysParents(S, CheckerName, OptionName, Default, SearchInParents) ==
  LET Key    == ScopedKey(CheckerName, OptionName)
      S1     == Looked(S, Key)
      Pos    == rfind(CheckerName, ".")
      Parent == substr0(CheckerName, Pos)
  IN  IF Key \in DOMAIN S.Config THEN Ret(S1, S.Config[Key])
      ELSE IF Pos = npos THEN Ret(S1, Default)
      ELSE IF Parent # <<>>
           THEN getCheckerOption_AlwaysParents(S1, Parent, OptionName, Default,
                                               SearchInParents)
      ELSE Ret(S1, Default)

\* Mutant of getCheckerOption: a miss falls back on the global entry of the
\* option name, which it inserts
RECURSIVE getCheckerOption_GlobalFallback(_, _, _, _, _)
getCheckerOption_GlobalFallback(S, CheckerName, OptionName, Default, SearchInParents) ==
  LET Key    == ScopedKey(CheckerName, OptionName)
      S1     == Looked(S, Key)
      Pos    == rfind(CheckerName, ".")
      Parent == substr0(CheckerName, Pos)
      Cfg    == StringMapInsert(S.Config, OptionName, Default)
      Global == Ret([Looked(S1, OptionName) EXCEPT !.Config = Cfg], Cfg[OptionName])
  IN  IF Key \in DOMAIN S.Config THEN Ret(S1, S.Config[Key])
      ELSE IF Pos = npos THEN Global
      ELSE IF Parent # <<>> /\ SearchInParents
           THEN getCheckerOption_GlobalFallback(S1, Parent, OptionName, Default,
                                                SearchInParents)
      ELSE Global

\* AnalyzerOptions::getCheckerOption: the do-while loop, one iteration per unfolding
RECURSIVE getCheckerOption(_, _, _, _, _)
getCheckerOption(S, CheckerName, OptionName, Default, SearchInParents) ==
  LET Key    == ScopedKey(CheckerName, OptionName)
      S1     == Looked(S, Key)
      Pos    == rfind(CheckerName, ".")
      Parent == substr0(CheckerName, Pos)
  IN  IF Key \in DOMAIN S.Config THEN Ret(S1, S.Config[Key])
      ELSE IF Pos = npos THEN Ret(S1, Default)
      ELSE IF Parent # <<>> /\ SearchInParents
           THEN getCheckerOption(S1, Parent, OptionName, Default, SearchInParents)
      ELSE Ret(S1, Default)

\* Mutant of getOptionAsString: the global read is Config[Name], which gives a
\* missing key the empty string
getOptionAsString_EmptyOnMissing(S, Name, DefaultVal, C, SearchInParents) ==
  IF hasValue(C)
  THEN getCheckerOption(S, getValue(C), Name, DefaultVal, SearchInParents)
  ELSE LET Cfg == StringMapInsert(S.Config, Name, <<>>)
       IN  Ret([Looked(S, Name) EXCEPT !.Config = Cfg], Cfg[Name])

\* Mutant of getOptionAsString: the global read hands back the caller's default
getOptionAsString_ReturnsDefault(S, Name, DefaultVal, C, SearchInParents) ==
  IF hasValue(C)
  THEN getCheckerOption(S, getValue(C), Name, DefaultVal, SearchInParents)
  ELSE LET Cfg == StringMapInsert(S.Config, Name, DefaultVal)
       IN  Ret([Looked(S, Name) EXCEPT !.Config = Cfg], DefaultVal)

\* AnalyzerOptions::getOptionAsString(Name, DefaultVal, C, SearchInParents);
\* C is <<>> for a null checker, <<C->getTagDescription()>> otherwise
getOptionAsString(S, Name, DefaultVal, C, SearchInParents) ==
  IF hasValue(C)
  THEN getCheckerOption(S, getValue(C), Name, DefaultVal, SearchInParents)
  ELSE LET Cfg == StringMapInsert(S.Config, Name, DefaultVal)
       IN  Ret([Looked(S, Name) EXCEPT !.Config = Cfg], Cfg[Name])

\* The Config entry that the StringRef returned by getOptionAsString points
\* into: the entry of the key looked up last when the store holds it
\* (StringRef(...first->second), line 351; I->getValue(), line 150), none
\* when the caller's default came back
Viewed(r) ==
  LET Key == r.st.lookups[Len(r.st.lookups)]
  IN  IF Key \in DOMAIN r.st.Config THEN Some(Key) ELSE NoValue

\* V = <a StringRef>: the Optional<StringRef> holds the reference, not a copy
SetView(S, V, val, Entry) ==
  [SetCell(S, V, val) EXCEPT !.views[V] = Entry]

\* AnalyzerOptions::getOptionAsString(Optional<StringRef> &V, ...)
getOptionAsStringMemo(S, V, Name, DefaultVal, C, SearchInParents) ==
  IF hasValue(S.cells[V]) THEN Ret(S, getValue(S.cells[V]))
  ELSE LET r == getOptionAsString(S, Name, DefaultVal, C, SearchInParents)
       IN  Ret(SetView(r.st, V, r.ret, Viewed(r)), r.ret)

\* Mutant of BoolSwitch: whatever is not "true" is false
BoolSwitch_FalseUnlessTrue(V, DefaultVal) ==
  V = s_true

\* the StringSwitch<bool> of getBooleanOption
BoolSwitch(V, DefaultVal) ==
  IF V = s_true THEN TRUE
  ELSE IF V = s_false THEN FALSE
  ELSE DefaultVal

\* AnalyzerOptions::getBooleanOption(Name, DefaultVal, C, SearchInParents)
getBooleanOption(S, Name, DefaultVal, C, SearchInParents) ==
  LET Default == toString(DefaultVal)
      r == IF hasValue(C)
           THEN getCheckerOption(S, getValue(C), Name, Default, SearchInParents)
           ELSE getOptionAsString(S, Name, Default, NoValue, FALSE)
  IN  Ret(r.st, BoolSwitch(r.ret, DefaultVal))

\* Mutant of getBooleanOptionMemo: the member is given the default, not the result
getBooleanOptionMemo_CachesDefault(S, V, Name, DefaultVal, C, SearchInParents) ==
  IF hasValue(S.cells[V]) THEN Ret(S, getValue(S.cells[V]))
  ELSE LET r == getBooleanOption(S, Name, DefaultVal, C, SearchInParents)
       IN  Ret(SetCell(r.st, V, DefaultVal), r.ret)

\* AnalyzerOptions::getBooleanOption(Optional<bool> &V, ...)
getBooleanOptionMemo(S, V, Name, DefaultVal, C, SearchInParents) ==
  IF hasValue(S.cells[V]) THEN Ret(S, getValue(S.cells[V]))
  ELSE LET r == getBooleanOption(S, Name, DefaultVal, C, SearchInParents)
       IN  Ret(SetCell(r.st, V, r.ret), r.ret)

\* "int Res = DefaultVal; bool b = V.getAsInteger(10, Res); assert(!b);
\* (void)b; return Res;" for Parsed = <<b, the value read>>: getAsInteger
\* leaves Res alone when it fails
NumericCheck(S, Parsed, DefaultVal) ==
  IF ~Parsed[1] THEN Ret(S, Parsed[2])
  ELSE IF S.NDEBUG THEN Ret(S, DefaultVal)
  ELSE Abort(S)

\* AnalyzerOptions::getOptionAsInteger
getOptionAsInteger(S, Name, DefaultVal, C, SearchInParents) ==
  LET Str == FormatInt(DefaultVal)
      r   == IF hasValue(C)
             THEN getCheckerOption(S, getValue(C), Name, Str, SearchInParents)
             ELSE getOptionAsString(S, Name, Str, NoValue, FALSE)
  IN  NumericCheck(r.st, getAsInteger(r.ret), DefaultVal)

\* AnalyzerOptions::getOptionAsUInt; DefaultVal is an unsigned, passed on as int
getOptionAsUInt(S, V, Name, DefaultVal, C, SearchInParents) ==
  IF hasValue(S.cells[V]) THEN Ret(S, getValue(S.cells[V]))
  ELSE LET r == getOptionAsInteger(S, Name, ToInt(DefaultVal), C, SearchInParents)
       IN  IF r.st.fatal THEN r
           ELSE Ret(SetCell(r.st, V, ToUnsigned(r.ret)), ToUnsigned(r.ret))

(***************************************************************************)
(* The token tables of the closed enums: token -> enumerator.              *)
(***************************************************************************)
UserModeTable ==
  (s_shallow :> "UMK_Shallow") @@ (s_deep :> "UMK_Deep")

ExplorationStrategyTable ==
  (s_dfs :> "DFS") @@ (s_bfs :> "BFS")
  @@ (s_unexplored_first :> "UnexploredFirst")
  @@ (s_unexplored_first_queue :> "UnexploredFirstQueue")
  @@ (s_unexplored_first_location_queue :> "UnexploredFirstLocationQueue")
  @@ (s_bfs_block_dfs_contents :> "BFSBlockDFSContents")

IPAKindTable ==
  (s_none :> "IPAK_None") @@ (s_basic_inlining :> "IPAK_BasicInlining")
  @@ (s_inlining :> "IPAK_Inlining") @@ (s_dynamic :> "IPAK_DynamicDispatch")
  @@ (s_dynamic_bifurcate :> "IPAK_DynamicDispatchBifurcate")

CXXInlineableMemberKindTable ==
  (s_constructors :> "CIMK_Constructors") @@ (s_destructors :> "CIMK_Destructors")
  @@ (s_methods :> "CIMK_MemberFunctions") @@ (s_none :> "CIMK_None")

\* llvm::StringSwitch<llvm::Optional<T>>(Str).Case(...)....Default(None)
StringSwitch(Table, Str) ==
  IF Str \in DOMAIN Table THEN Some(Table[Str]) ELSE NoValue

\* "V = StringSwitch...; assert(V.hasValue()); ... V.getValue()": the cell is
\* assigned what the switch gave.  An empty cell fails the assertion; under
\* NDEBUG there is none, the cell stays empty and getValue() reads its storage
AssignChecked(S, V, Switched) ==
  IF hasValue(Switched) THEN Ret(SetCell(S, V, getValue(Switched)), getValue(Switched))
  ELSE IF S.NDEBUG THEN Ret(S, S.storage[V])
  ELSE Abort(S)

\* The order of the enumerators of IPAKind and CXXInlineableMemberKind
IPAKindOrder ==
  <<"IPAK_None", "IPAK_BasicInlining", "IPAK_Inlining", "IPAK_DynamicDispatch",
    "IPAK_DynamicDispatchBifurcate">>

\* Mutant of CXXInlineableMemberKindOrder: constructors above destructors
CXXInlineableMemberKindOrder_CtorsAbove ==
  <<"CIMK_None", "CIMK_Destructors", "CIMK_Constructors", "CIMK_MemberFunctions">>

CXXInlineableMemberKindOrder ==
  <<"CIMK_None", "CIMK_Constructors", "CIMK_Destructors", "CIMK_MemberFunctions">>

\* The place of e among the enumerators; a value that is none of them
\* compares above them all
Rank(Order, e) ==
  IF \E i \in 1..Len(Order) : Order[i] = e
  THEN CHOOSE i \in 1..Len(Order) : Order[i] = e
  ELSE Len(Order) + 1

\* Mutant of getUserMode: "mode" is resolved at every call
getUserMode_NoMemo(S) ==
  LET r == getOptionAsString(S, s_mode, s_deep, NoValue, FALSE)
  IN  AssignChecked(r.st, "UserMode", StringSwitch(UserModeTable, r.ret))

\* AnalyzerOptions::getUserMode
getUserMode(S) ==
  IF hasValue(S.cells.UserMode) THEN Ret(S, getValue(S.cells.UserMode))
  ELSE LET r == getOptionAsString(S, s_mode, s_deep, NoValue, FALSE)
       IN  AssignChecked(r.st, "UserMode", StringSwitch(UserModeTable, r.ret))

\* AnalyzerOptions::getExplorationStrategy
getExplorationStrategy(S) ==
  IF hasValue(S.cells.ExplorationStrategy)
  THEN Ret(S, getValue(S.cells.ExplorationStrategy))
  ELSE LET r == getOptionAsString(S, s_exploration_strategy,
                                  s_unexplored_first_queue, NoValue, FALSE)
       IN  AssignChecked(r.st, "ExplorationStrategy",
                         StringSwitch(ExplorationStrategyTable, r.ret))

\* Mutant of DefaultIPA: the default does not depend on the mode
DefaultIPA_ModeBlind(HighLevelMode) ==
  s_dynamic_bifurcate

\* the DefaultIPA of getIPAMode; it stays nullptr for a HighLevelMode that is
\* neither enumerator, and StringRef(nullptr) is the empty string
DefaultIPA(HighLevelMode) ==
  IF HighLevelMode = "UMK_Shallow" THEN s_inlining
  ELSE IF HighLevelMode = "UMK_Deep" THEN s_dynamic_bifurcate
  ELSE <<>>

\* AnalyzerOptions::getIPAMode
getIPAMode(S) ==
  IF hasValue(S.cells.IPAMode) THEN Ret(S, getValue(S.cells.IPAMode))
  ELSE LET m == getUserMode(S)
       IN  IF m.st.fatal THEN m
           ELSE LET r == getOptionAsString(m.st, s_ipa, DefaultIPA(m.ret), NoValue, FALSE)
                IN  AssignChecked(r.st, "IPAMode", StringSwitch(IPAKindTable, r.ret))

\* Mutant of mayInlineCXXMemberFunction: "c++-inlining" is resolved before the
\* interprocedural mode is compared
mayInlineCXXMemberFunction_Eager(S, K) ==
  LET i == getIPAMode(S)
  IN  IF i.st.fatal THEN i
      ELSE LET c == IF hasValue(i.st.cells.CXXMemberInliningMode)
                    THEN Ret(i.st, getValue(i.st.cells.CXXMemberInliningMode))
                    ELSE LET r == getOptionAsString(i.st, s_cxx_inlining, s_destructors,
                                                    NoValue, FALSE)
                         IN  AssignChecked(r.st, "CXXMemberInliningMode",
                                           StringSwitch(CXXInlineableMemberKindTable, r.ret))
           IN  IF c.st.fatal THEN c
               ELSE Ret(c.st, /\ Rank(IPAKindOrder, i.ret)
                                   >= Rank(IPAKindOrder, "IPAK_Inlining")
                              /\ Rank(CXXInlineableMemberKindOrder, c.ret)
                                   >= Rank(CXXInlineableMemberKindOrder, K))

\* AnalyzerOptions::mayInlineCXXMemberFunction
mayInlineCXXMemberFunction(S, K) ==
  LET i == getIPAMode(S)
  IN  IF i.st.fatal THEN i
      ELSE IF Rank(IPAKindOrder, i.ret) < Rank(IPAKindOrder, "IPAK_Inlining")
           THEN Ret(i.st, FALSE)
      ELSE LET c == IF hasValue(i.st.cells.CXXMemberInliningMode)
                    THEN Ret(i.st, getValue(i.st.cells.CXXMemberInliningMode))
                    ELSE LET r == getOptionAsString(i.st, s_cxx_inlining, s_destructors,
                                                    NoValue, FALSE)
                         IN  AssignChecked(r.st, "CXXMemberInliningMode",
                                           StringSwitch(CXXInlineableMemberKindTable, r.ret))
           IN  IF c.st.fatal THEN c
               ELSE Ret(c.st, Rank(CXXInlineableMemberKindOrder, c.ret)
                              >= Rank(CXXInlineableMemberKindOrder, K))

(***************************************************************************)
(* The named accessors.                                                    *)
(***************************************************************************)
\* The boolean accessors that call getBooleanOption(Optional<bool> &V, ...):
\* accessor :> <<member, option name, default>>
MemoBooleanAccessors ==
  ("includeTemporaryDtorsInCFG" :> <<"IncludeTemporaryDtorsInCFG", s_cfg_temporary_dtors, TRUE>>)
  @@ ("includeImplicitDtorsInCFG" :> <<"IncludeImplicitDtorsInCFG", s_cfg_implicit_dtors, TRUE>>)
  @@ ("includeLifetimeInCFG" :> <<"IncludeLifetimeInCFG", s_cfg_lifetime, FALSE>>)
  @@ ("includeLoopExitInCFG" :> <<"IncludeLoopExitInCFG", s_cfg_loopexit, FALSE>>)
  @@ ("includeRichConstructorsInCFG" :> <<"IncludeRichConstructorsInCFG", s_cfg_rich_constructors, TRUE>>)
  @@ ("includeScopesInCFG" :> <<"IncludeScopesInCFG", s_cfg_scopes, FALSE>>)
  @@ ("mayInlineCXXStandardLibrary" :> <<"InlineCXXStandardLibrary", s_cxx_stdlib_inlining, TRUE>>)
  @@ ("mayInlineTemplateFunctions" :> <<"InlineTemplateFunctions", s_cxx_template_inlining, TRUE>>)
  @@ ("mayInlineCXXAllocator" :> <<"InlineCXXAllocator", s_cxx_allocator_inlining, TRUE>>)
  @@ ("mayInlineCXXContainerMethods" :> <<"InlineCXXContainerMethods", s_cxx_container_inlining, FALSE>>)
  @@ ("mayInlineCXXSharedPtrDtor" :> <<"InlineCXXSharedPtrDtor", s_cxx_shared_ptr_inlining, FALSE>>)
  @@ ("mayInlineCXXTemporaryDtors" :> <<"InlineCXXTemporaryDtors", s_cxx_temp_dtor_inlining, TRUE>>)
  @@ ("mayInlineObjCMethod" :> <<"ObjCInliningMode", s_objc_inlining, TRUE>>)
  @@ ("shouldSuppressNullReturnPaths" :> <<"SuppressNullReturnPaths", s_suppress_null_return_paths, TRUE>>)
  @@ ("shouldAvoidSuppressingNullArgumentPaths" :> <<"AvoidSuppressingNullArgumentPaths", s_avoid_suppressing_null_argument_paths, FALSE>>)
  @@ ("shouldSuppressInlinedDefensiveChecks" :> <<"SuppressInlinedDefensiveChecks", s_suppress_inlined_defensive_checks, TRUE>>)
  @@ ("shouldSuppressFromCXXStandardLibrary" :> <<"SuppressFromCXXStandardLibrary", s_suppress_cxx_stdlib, TRUE>>)
  @@ ("shouldCrosscheckWithZ3" :> <<"CrosscheckWithZ3", s_crosscheck_with_z3, FALSE>>)
  @@ ("shouldReportIssuesInMainSourceFile" :> <<"ReportIssuesInMainSourceFile", s_report_in_main_source_file, FALSE>>)
  @@ ("shouldWriteStableReportFilename" :> <<"StableReportFilename", s_stable_report_filename, FALSE>>)
  @@ ("shouldSerializeStats" :> <<"SerializeStats", s_serialize_stats, FALSE>>)
  @@ ("shouldElideConstructors" :> <<"ElideConstructors", s_elide_constructors, TRUE>>)

\* The boolean accessors that test their member themselves and call
\* getBooleanOption(Name, DefaultVal): accessor :> <<member, option name, default>>
InlineBooleanAccessors ==
  ("shouldInlineLambdas" :> <<"InlineLambdas", s_inline_lambdas, TRUE>>)
  @@ ("shouldWidenLoops" :> <<"WidenLoops", s_widen_loops, FALSE>>)
  @@ ("shouldUnrollLoops" :> <<"UnrollLoops", s_unroll_loops, FALSE>>)
  @@ ("shouldDisplayNotesAsEvents" :> <<"DisplayNotesAsEvents", s_notes_as_events, FALSE>>)
  @@ ("shouldDisplayMacroExpansions" :> <<"DisplayMacroExpansions", s_expand_macros, FALSE>>)
  @@ ("shouldAggressivelySimplifyBinaryOperation" :> <<"AggressiveBinaryOperationSimplification", s_aggressive_binary_operation_simplification, FALSE>>)
  @@ ("shouldEagerlyAssume" :> <<"EagerlyAssumeBinOpBifurcation", s_eagerly_assume, TRUE>>)
  @@ ("naiveCTUEnabled" :> <<"NaiveCTU", s_experimental_enable_naive_ctu_analysis, FALSE>>)

\* The boolean accessors that keep no member: accessor :> <<option name, default>>
PlainBooleanAccessors ==
  ("shouldSynthesizeBodies" :> <<s_faux_bodies, TRUE>>)
  @@ ("shouldPrunePaths" :> <<s_prune_paths, TRUE>>)
  @@ ("shouldConditionalizeStaticInitializers" :> <<s_cfg_conditional_static_initializers, TRUE>>)

\* The unsigned accessors with a literal default: accessor :> <<member, option name, default>>
UnsignedAccessors ==
  ("getAlwaysInlineSize" :> <<"AlwaysInlineSize", s_ipa_always_inline_size, 3>>)
  @@ ("getGraphTrimInterval" :> <<"GraphTrimInterval", s_graph_trim_interval, 1000>>)
  @@ ("getMaxSymbolComplexity" :> <<"MaxSymbolComplexity", s_max_symbol_complexity, 35>>)
  @@ ("getMaxTimesInlineLarge" :> <<"MaxTimesInlineLarge", s_max_times_inline_large, 32>>)
  @@ ("getMinCFGSizeTreatFunctionsAsLarge" :> <<"MinCFGSizeTreatFunctionsAsLarge", s_min_cfg_size_treat_functions_as_large, 14>>)

\* includeTemporaryDtorsInCFG ... shouldElideConstructors
MemoBooleanAccessor(S, F) ==
  LET a == MemoBooleanAccessors[F]
  IN  getBooleanOptionMemo(S, a[1], a[2], a[3], NoValue, FALSE)

\* shouldInlineLambdas ... shouldEagerlyAssume, naiveCTUEnabled
InlineBooleanAccessor(S, F) ==
  LET a == InlineBooleanAccessors[F]
  IN  IF hasValue(S.cells[a[1]]) THEN Ret(S, getValue(S.cells[a[1]]))
      ELSE LET r == getBooleanOption(S, a[2], a[3], NoValue, FALSE)
           IN  Ret(SetCell(r.st, a[1], r.ret), r.ret)

\* shouldSynthesizeBodies, shouldPrunePaths, shouldConditionalizeStaticInitializers
PlainBooleanAccessor(S, F) ==
  LET a == PlainBooleanAccessors[F]
  IN  getBooleanOption(S, a[1], a[2], NoValue, FALSE)

\* "if (!X.hasValue()) X = getOptionAsInteger(Name, DefaultValue); return X.getValue();"
\* with X an Optional<unsigned>
UnsignedFromInteger(S, V, Name, DefaultValue) ==
  IF hasValue(S.cells[V]) THEN Ret(S, getValue(S.cells[V]))
  ELSE LET r == getOptionAsInteger(S, Name, DefaultValue, NoValue, FALSE)
       IN  IF r.st.fatal THEN r
           ELSE Ret(SetCell(r.st, V, ToUnsigned(r.ret)), ToUnsigned(r.ret))

\* getAlwaysInlineSize ... getMinCFGSizeTreatFunctionsAsLarge
UnsignedAccessor(S, F) ==
  LET a == UnsignedAccessors[F]
  IN  UnsignedFromInteger(S, a[1], a[2], a[3])

\* Mutant of MaxInlinableSizeDefault: the two modes' defaults exchanged
MaxInlinableSizeDefault_Exchanged(HighLevelMode) ==
  IF HighLevelMode = "UMK_Shallow" THEN 100
  ELSE IF HighLevelMode = "UMK_Deep" THEN 4
  ELSE 0

\* the DefaultValue of getMaxInlinableSize
MaxInlinableSizeDefault(HighLevelMode) ==
  IF HighLevelMode = "UMK_Shallow" THEN 4
  ELSE IF HighLevelMode = "UMK_Deep" THEN 100
  ELSE 0

\* AnalyzerOptions::getMaxInlinableSize
getMaxInlinableSize(S) ==
  IF hasValue(S.cells.MaxInlinableSize) THEN Ret(S, getValue(S.cells.MaxInlinableSize))
  ELSE LET m == getUserMode(S)
       IN  IF m.st.fatal THEN m
           ELSE UnsignedFromInteger(m.st, "MaxInlinableSize", s_max_inlinable_size,
                                    MaxInlinableSizeDefault(m.ret))

\* the DefaultValue of getMaxNodesPerTopLevelFunction
MaxNodesDefault(HighLevelMode) ==
  IF HighLevelMode = "UMK_Shallow" THEN 75000
  ELSE IF HighLevelMode = "UMK_Deep" THEN 225000
  ELSE 0

\* AnalyzerOptions::getMaxNodesPerTopLevelFunction
getMaxNodesPerTopLevelFunction(S) ==
  IF hasValue(S.cells.MaxNodesPerTopLevelFunction)
  THEN Ret(S, getValue(S.cells.MaxNodesPerTopLevelFunction))
  ELSE LET m == getUserMode(S)
       IN  IF m.st.fatal THEN m
           ELSE UnsignedFromInteger(m.st, "MaxNodesPerTopLevelFunction", s_max_nodes,
                                    MaxNodesDefault(m.ret))

\* llvm::sys::fs::is_directory(Path), answered from Dirs; the probe is noted
Probed(S, Path) ==
  [S EXCEPT !.probes = Append(@, Path)]

\* Mutant of getCTUDir: the member is not consulted, every call probes
getCTUDir_ProbesAlways(S, Dirs) ==
  LET r == getOptionAsString(S, s_ctu_dir, <<>>, NoValue, FALSE)
      d == IF r.ret \in Dirs THEN r.ret ELSE <<>>
      e == IF r.ret \in Dirs THEN Viewed(r) ELSE NoValue
  IN  Ret(SetView(Probed(r.st, r.ret), "CTUDir", d, e), d)

\* AnalyzerOptions::getCTUDir; Dirs is what llvm::sys::fs::is_directory answers
getCTUDir(S, Dirs) ==
  IF hasValue(S.cells.CTUDir) THEN Ret(S, getValue(S.cells.CTUDir))
  ELSE LET r == getOptionAsString(S, s_ctu_dir, <<>>, NoValue, FALSE)
           d == IF r.ret \in Dirs THEN r.ret ELSE <<>>
           e == IF r.ret \in Dirs THEN Viewed(r) ELSE NoValue
       IN  Ret(SetView(Probed(r.st, r.ret), "CTUDir", d, e), d)

\* AnalyzerOptions::getCTUIndexName
getCTUIndexName(S) ==
  getOptionAsStringMemo(S, "CTUIndexName", s_ctu_index_name, s_externalFnMap_txt,
                        NoValue, FALSE)

\* The Optional<> members of AnalyzerOptions that the accessors fill, and
\* three Optional<> objects of a caller, handed by reference to the getters
\* that take one (CheckerBool, CheckerUnsigned, CheckerString)
Members ==
  {"UserMode", "ExplorationStrategy", "IPAMode", "CXXMemberInliningMode",
   "CheckerBool", "CheckerUnsigned", "CheckerString",
   "MaxInlinableSize", "MaxNodesPerTopLevelFunction", "CTUDir", "CTUIndexName"}
  \union {MemoBooleanAccessors[f][1] : f \in DOMAIN MemoBooleanAccessors}
  \union {InlineBooleanAccessors[f][1] : f \in DOMAIN InlineBooleanAccessors}
  \union {UnsignedAccessors[f][1] : f \in DOMAIN UnsignedAccessors}

\* The Optional<StringRef> ones among them
StringMembers ==
  {"CheckerString", "CTUDir", "CTUIndexName"}

\* The for loop of getRegisteredCheckers from the i-th entry on
RECURSIVE RegisteredFrom(_, _, _, _)
RegisteredFrom(Checks, i, Result, IncludeExperimental) ==
  IF i > Len(Checks) THEN Result
  ELSE LET CheckName == Checks[i]
       IN  RegisteredFrom(Checks, i + 1,
                          IF /\ ~startswith(CheckName, s_debug_dot)
                             /\ (IncludeExperimental \/ ~startswith(CheckName, s_alpha_dot))
                          THEN Append(Result, CheckName)
                          ELSE Result,
                          IncludeExperimental)

\* AnalyzerOptions::getRegisteredCheckers over the static table Checks
getRegisteredCheckers(Checks, IncludeExperimental) ==
  RegisteredFrom(Checks, 1, <<>>, IncludeExperimental)

(***************************************************************************)
(* Calls on the session.                                                   *)
(***************************************************************************)
\* A value of an enum's underlying type that is none of its enumerators
Indeterminate == "indeterminate"

\* The enum members: member |-> <<option key, token table>>
EnumMembers ==
  [UserMode              |-> <<s_mode, UserModeTable>>,
   ExplorationStrategy   |-> <<s_exploration_strategy, ExplorationStrategyTable>>,
   IPAMode               |-> <<s_ipa, IPAKindTable>>,
   CXXMemberInliningMode |-> <<s_cxx_inlining, CXXInlineableMemberKindTable>>]

\* A call can only read the storage of an empty enum member when the token
\* of its option is outside the table, which for "ipa" is also so when the
\* key is absent and the default comes from an indeterminate mode
StorageRead(V) ==
  LET key   == EnumMembers[V][1]
      table == EnumMembers[V][2]
      Bad(k, t) == k \in DOMAIN Config /\ Config[k] \notin DOMAIN t
  IN  /\ NDEBUG
      /\ ~hasValue(cells[V])
      /\ \/ Bad(key, table)
         \/ /\ V = "IPAMode"
            /\ s_ipa \notin DOMAIN Config
            /\ ~hasValue(cells.UserMode)
            /\ Bad(s_mode, UserModeTable)

\* What the storage of the empty enum members may hold: any enumerator or
\* an indeterminate value where a call can read it (one value stands for the
\* storage that no call reads)
Storage ==
  LET Held(V) == IF StorageRead(V)
                 THEN {EnumMembers[V][2][t] : t \in DOMAIN EnumMembers[V][2]}
                        \union {Indeterminate}
                 ELSE {Indeterminate}
  IN  {[UserMode |-> u, ExplorationStrategy |-> e, IPAMode |-> i,
        CXXMemberInliningMode |-> c] :
         u \in Held("UserMode"), e \in Held("ExplorationStrategy"),
         i \in Held("IPAMode"), c \in Held("CXXMemberInliningMode")}

\* The session as a call finds it, the enum members' storage holding st
Session(st) ==
  [Config |-> Config, cells |-> cells, views |-> views, lookups |-> <<>>, fatal |-> FALSE,
   NDEBUG |-> NDEBUG, storage |-> st, probes |-> <<>>]

\* The session as a call finds it that reads no enum member
Sigma ==
  Session([V \in DOMAIN EnumMembers |-> Indeterminate])

\* The record kept of a call: what was called with which arguments, the
\* members before it (pre) and after it (post), how it ended and the keys it
\* looked up and the paths it probed
NoCall ==
  [op |-> "none", args |-> <<>>, outcome |-> "none", ret |-> <<>>,
   lookups |-> <<>>, pre |-> [Config |-> <<>>, cells |-> <<>>],
   post |-> [cells |-> <<>>], probes |-> <<>>]

\* A call of Op(Args) that ran as r: the members become those r left, a
\* failed assertion ends the process
Commit(Op, Args, r) ==
  /\ pc = "running"
  /\ budget > 0
  /\ budget' = budget - 1
  /\ Config' = r.st.Config
  /\ cells' = r.st.cells
  /\ views' = r.st.views
  /\ pc' = IF r.st.fatal THEN "aborted" ELSE "running"
  /\ call' = [op |-> Op, args |-> Args,
              outcome |-> IF r.st.fatal THEN "fatal" ELSE "returned",
              ret |-> r.ret, lookups |-> r.st.lookups,
              pre |-> [Config |-> Config, cells |-> cells],
              post |-> [cells |-> r.st.cells], probes |-> r.st.probes]
  /\ \/ first' = first
     \/ first.op = "none" /\ first' = call'
  /\ UNCHANGED <<dirs, NDEBUG, StaticAnalyzerChecks>>

Call_getCheckerOption(CheckerName, OptionName, Default, SearchInParents) ==
  Commit("getCheckerOption", <<CheckerName, OptionName, Default, SearchInParents>>,
         getCheckerOption(Sigma, CheckerName, OptionName, Default, SearchInParents))

Call_getOptionAsString(Name, DefaultVal, C, SearchInParents) ==
  Commit("getOptionAsString", <<Name, DefaultVal, C, SearchInParents>>,
         getOptionAsString(Sigma, Name, DefaultVal, C, SearchInParents))

Call_getOptionAsStringMemo(V, Name, DefaultVal, C, SearchInParents) ==
  Commit("getOptionAsStringMemo", <<V, Name, DefaultVal, C, SearchInParents>>,
         getOptionAsStringMemo(Sigma, V, Name, DefaultVal, C, SearchInParents))

Call_getBooleanOption(Name, DefaultVal, C, SearchInParents) ==
  Commit("getBooleanOption", <<Name, DefaultVal, C, SearchInParents>>,
         getBooleanOption(Sigma, Name, DefaultVal, C, SearchInParents))

Call_getBooleanOptionMemo(V, Name, DefaultVal, C, SearchInParents) ==
  Commit("getBooleanOptionMemo", <<V, Name, DefaultVal, C, SearchInParents>>,
         getBooleanOptionMemo(Sigma, V, Name, DefaultVal, C, SearchInParents))

Call_getOptionAsInteger(Name, DefaultVal, C, SearchInParents) ==
  Commit("getOptionAsInteger", <<Name, DefaultVal, C, SearchInParents>>,
         getOptionAsInteger(Sigma, Name, DefaultVal, C, SearchInParents))

Call_getOptionAsUInt(V, Name, DefaultVal, C, SearchInParents) ==
  Commit("getOptionAsUInt", <<V, Name, DefaultVal, C, SearchInParents>>,
         getOptionAsUInt(Sigma, V, Name, DefaultVal, C, SearchInParents))

Call_getUserMode ==
  \E st \in Storage :
    Commit("getUserMode", <<>>, getUserMode(Session(st)))

Call_getExplorationStrategy ==
  \E st \in Storage :
    Commit("getExplorationStrategy", <<>>, getExplorationStrategy(Session(st)))

Call_getIPAMode ==
  \E st \in Storage :
    Commit("getIPAMode", <<>>, getIPAMode(Session(st)))

Call_mayInlineCXXMemberFunction(K) ==
  \E st \in Storage :
    Commit("mayInlineCXXMemberFunction", <<K>>, mayInlineCXXMemberFunction(Session(st), K))

Call_MemoBooleanAccessor(F) ==
  Commit(F, <<>>, MemoBooleanAccessor(Sigma, F))

Call_InlineBooleanAccessor(F) ==
  Commit(F, <<>>, InlineBooleanAccessor(Sigma, F))

Call_PlainBooleanAccessor(F) ==
  Commit(F, <<>>, PlainBooleanAccessor(Sigma, F))

Call_UnsignedAccessor(F) ==
  Commit(F, <<>>, UnsignedAccessor(Sigma, F))

Call_getMaxInlinableSize ==
  \E st \in Storage :
    Commit("getMaxInlinableSize", <<>>, getMaxInlinableSize(Session(st)))

Call_getMaxNodesPerTopLevelFunction ==
  \E st \in Storage :
    Commit("getMaxNodesPerTopLevelFunction", <<>>, getMaxNodesPerTopLevelFunction(Session(st)))

Call_getCTUDir ==
  Commit("getCTUDir", <<>>, getCTUDir(Sigma, dirs))

Call_getCTUIndexName ==
  Commit("getCTUIndexName", <<>>, getCTUIndexName(Sigma))

\* The terminator that std::string keeps after its characters
NUL == "NUL"

\* Characters of a buffer that has been given back to the allocator
Freed == <<Indeterminate>>

\* What a StringRef that showed View shows once the std::string it points
\* into, which held Old, has been assigned Val.  The assignment writes Val
\* and a terminator into the buffer when the buffer has room for them, which
\* it has when Val is no longer than Old; otherwise it may also take a new
\* buffer and free the one the StringRef points into, which then keeps its
\* characters or gets others.  The StringRef keeps its pointer and length.
Rewritten(View, Old, Val) ==
  LET InPlace == [i \in 1..Len(View) |->
                    IF i <= Len(Val) THEN Val[i]
                    ELSE IF i = Len(Val) + 1 THEN NUL
                    ELSE View[i]]
  IN  IF Len(View) = 0 THEN {View}
      ELSE IF Len(Val) <= Len(Old) THEN {InPlace}
      ELSE {InPlace, View, Freed}

\* What the Optional<StringRef> V may hold after Config[Key] = Val
AfterWrite(V, Key, Val) ==
  IF hasValue(cells[V]) /\ views[V] = Some(Key)
  THEN {Some(x) : x \in Rewritten(getValue(cells[V]), Config[Key], Val)}
  ELSE {cells[V]}

\* A write to the public member Config from outside the getters, such as the
\* option loader makes: Config[Key] = Val
ExternalSet(Key, Val) ==
  /\ pc = "running"
  /\ budget > 0
  /\ budget' = budget - 1
  /\ Config' = (Key :> Val) @@ Config
  /\ \E a \in AfterWrite("CheckerString", Key, Val),
        b \in AfterWrite("CTUDir", Key, Val),
        c \in AfterWrite("CTUIndexName", Key, Val) :
        cells' = [cells EXCEPT !.CheckerString = a, !.CTUDir = b,
                               !.CTUIndexName = c]
  /\ call' = [op |-> "external", args |-> <<Key, Val>>, outcome |-> "returned",
              ret |-> <<>>, lookups |-> <<>>,
              pre |-> [Config |-> Config, cells |-> cells],
              post |-> [cells |-> cells'], probes |-> <<>>]
  /\ UNCHANGED <<views, dirs, pc, first, NDEBUG, StaticAnalyzerChecks>>

\* Checker names as Checkers.inc lists them, and names that only resemble the
\* "debug." and "alpha." packages
CheckNames ==
  << <<"c",".","a">>,
     <<"a","l","p","h","a",".","a">>,
     <<"d","e","b","u","g",".","a">>,
     <<"d","e","b","u","g">>,
     <<"a","l","p","h","a",".","d","e","b","u","g",".","a">>,
     <<"c",".","d","e","b","u","g",".">> >>

\* A session as constructed: Config as the option loader left it, every
\* Optional<> member empty; Budget and Watch set up the bookkeeping
InitSession(Stores, Budget, Watch) ==
  /\ Config \in Stores
  /\ cells = [m \in Members |-> NoValue]
  /\ dirs = {}
  /\ pc = "running"
  /\ call = NoCall
  /\ first = IF Watch THEN NoCall ELSE [NoCall EXCEPT !.op = "unwatched"]
  /\ budget = Budget
  /\ NDEBUG \in BOOLEAN
  /\ views = [V \in StringMembers |-> NoValue]
  /\ StaticAnalyzerChecks = <<CheckNames[1], CheckNames[2], CheckNames[3]>>

(***************************************************************************)
(* SpecScope: the scope resolver applied to every store over the keys of   *)
(* a family of checker names.                                              *)
(***************************************************************************)
\* "a", "a.a", "a.a.a", ...: a checker name of N components
RECURSIVE Dotted(_)
Dotted(N) ==
  IF N <= 1 THEN <<"a">> ELSE Dotted(N - 1) \o <<".", "a">>

\* Checker names: well-formed ones, and "", ".a", "a.", "a..a"
ScopeCheckers ==
  {Dotted(n) : n \in 1..MaxDepth}
  \union {<<>>, <<".", "a">>, <<"a", ".">>, <<"a", ".", ".", "a">>}

ScopeOptions ==
  {<<"x">>, <<"y">>}

ScopeDefault ==
  <<"d">>

\* Every store over the keys C:x of the checker names, and a:y; each value
\* is its own key, so that a returned value tells which entry was read
ScopeStores ==
  LET Keys == {ScopedKey(c, <<"x">>) : c \in ScopeCheckers}
              \union {ScopedKey(<<"a">>, <<"y">>)}
  IN  {[k \in K |-> k] : K \in SUBSET Keys}

InitScope ==
  InitSession(ScopeStores, MaxCalls, FALSE)

NextScope ==
  \/ \E c \in ScopeCheckers, n \in ScopeOptions, sip \in BOOLEAN :
       Call_getCheckerOption(c, n, ScopeDefault, sip)
  \/ \E c \in ScopeCheckers, n \in ScopeOptions, sip \in BOOLEAN :
       Call_getOptionAsString(n, ScopeDefault, Some(c), sip)

SpecScope ==
  InitScope /\ [][NextScope]_vars

(***************************************************************************)
(* The scope resolver, stated without the loop.                            *)
(***************************************************************************)
\* The checker name itself and what is left of it before each of its dots,
\* the empty string left out
DotPrefixes(CheckerName) ==
  {CheckerName}
  \union ({SubSeq(CheckerName, 1, i - 1) :
            i \in {j \in 1..Len(CheckerName) : CheckerName[j] = "."}} \ {<<>>})

\* The prefixes of CheckerName that have an entry for OptionName in Cfg
PrefixHits(Cfg, CheckerName, OptionName) ==
  {P \in DotPrefixes(CheckerName) : ScopedKey(P, OptionName) \in DOMAIN Cfg}

LongestHit(Cfg, CheckerName, OptionName) ==
  CHOOSE P \in PrefixHits(Cfg, CheckerName, OptionName) :
    \A Q \in PrefixHits(Cfg, CheckerName, OptionName) : Len(Q) <= Len(P)

\* C3: getCheckerOption(S, x, default, searchParents = true) returns the value
\* stored under P:x for the longest dot-delimited prefix P of S (S included)
\* that has the key P:x, and the caller default when no prefix has it.
C3_HierarchicalFallback ==
  (call.op = "getCheckerOption" /\ call.args[4])
  => LET S   == call.args[1]
         x   == call.args[2]
         Cfg == call.pre.Config
     IN  /\ call.outcome = "returned"
         /\ call.ret = IF PrefixHits(Cfg, S, x) = {} THEN call.args[3]
                       ELSE Cfg[ScopedKey(LongestHit(Cfg, S, x), x)]

\* C3 witness: a parent-searching lookup that misses the exact key and finds
\* the key at two enclosing levels, and returns the nearer one's value
C3_Witness ==
  /\ call.op = "getCheckerOption" /\ call.args[4]
  /\ call.args[1] \notin PrefixHits(call.pre.Config, call.args[1], call.args[2])
  /\ Cardinality(PrefixHits(call.pre.Config, call.args[1], call.args[2])) >= 2
  /\ call.ret = ScopedKey(Dotted(2), <<"x">>)

\* C4: with searchParents = false getCheckerOption consults only the exact key
\* S:x and returns the caller default when it is absent, whatever keys the
\* parents of S have; and every key any lookup consults is P:x for a prefix P
\* of S, with the option name x as it was passed.
C4_ParentSearchOptIn ==
  (call.op = "getCheckerOption")
  => LET S   == call.args[1]
         x   == call.args[2]
         Cfg == call.pre.Config
     IN  /\ \A i \in 1..Len(call.lookups) :
              \E P \in DotPrefixes(S) : call.lookups[i] = ScopedKey(P, x)
         /\ ~call.args[4] =>
              /\ call.lookups = <<ScopedKey(S, x)>>
              /\ call.ret = IF ScopedKey(S, x) \in DOMAIN Cfg
                            THEN Cfg[ScopedKey(S, x)] ELSE call.args[3]

\* C4 witness: a lookup without parent search that returns the default
\* although a parent of the checker has the key
C4_Witness ==
  /\ call.op = "getCheckerOption" /\ ~call.args[4]
  /\ PrefixHits(call.pre.Config, call.args[1], call.args[2]) # {}
  /\ call.ret = call.args[3]

(***************************************************************************)
(* Spec: a session on which every getter may be called, up to MaxCalls     *)
(* calls, with no write to Config from outside.                            *)
(***************************************************************************)
\* a checker "a" and its option "x"; "a:x" is also a possible global name
CheckerA ==
  <<"a">>

OptionX ==
  <<"x">>

s_sideways ==
  <<"s","i","d","e","w","a","y","s">>

SessionStores ==
  { <<>>,
    (OptionX :> <<"v">>),
    (ScopedKey(CheckerA, OptionX) :> s_false),
    (s_mode :> s_shallow),
    (s_mode :> s_sideways) }

SessionDefaults ==
  {<<"u">>, <<"v">>}

NextSession ==
  \/ \E d \in SessionDefaults, c \in {NoValue, Some(CheckerA)} :
       Call_getOptionAsString(OptionX, d, c, FALSE)
  \/ \E d \in SessionDefaults :
       Call_getOptionAsString(ScopedKey(CheckerA, OptionX), d, NoValue, FALSE)
  \/ Call_getCheckerOption(CheckerA, OptionX, <<"u">>, TRUE)
  \/ Call_getOptionAsStringMemo("CheckerString", OptionX, <<"u">>, NoValue, FALSE)
  \/ \E c \in {NoValue, Some(CheckerA)} :
       Call_getBooleanOption(OptionX, TRUE, c, FALSE)
  \/ Call_getBooleanOptionMemo("CheckerBool", OptionX, TRUE, Some(CheckerA), TRUE)
  \/ \E c \in {NoValue, Some(CheckerA)} :
       Call_getOptionAsInteger(OptionX, 7, c, FALSE)
  \/ Call_getOptionAsUInt("CheckerUnsigned", OptionX, ToUnsigned(7), Some(CheckerA), FALSE)
  \/ Call_getUserMode
  \/ Call_getExplorationStrategy
  \/ Call_getIPAMode
  \/ Call_mayInlineCXXMemberFunction("CIMK_MemberFunctions")
  \/ Call_MemoBooleanAccessor("includeLifetimeInCFG")
  \/ Call_InlineBooleanAccessor("shouldInlineLambdas")
  \/ \E F \in DOMAIN PlainBooleanAccessors : Call_PlainBooleanAccessor(F)
  \/ Call_UnsignedAccessor("getGraphTrimInterval")
  \/ Call_getMaxInlinableSize
  \/ Call_getMaxNodesPerTopLevelFunction
  \/ Call_getCTUDir
  \/ Call_getCTUIndexName

Init ==
  InitSession(SessionStores, MaxCalls, TRUE)

Next ==
  NextSession

Spec ==
  Init /\ [][Next]_vars

\* A call was made and remembered
Watched ==
  first.op \notin {"none", "unwatched"}

\* The same getter called with the same arguments
SameCall(c1, c2) ==
  c1.op = c2.op /\ c1.args = c2.args

\* A global (no checker) call of getOptionAsString
GlobalStringRead(c) ==
  c.op = "getOptionAsString" /\ c.args[3] = NoValue

\* C1: a global getOptionAsString(name, d1) of a key absent from the store
\* returns d1 and leaves name -> d1 in the store; every later global
\* getOptionAsString of that name returns d1, whatever default it passes.
C1_InsertOnRead ==
  /\ (GlobalStringRead(call) /\ call.args[1] \notin DOMAIN call.pre.Config)
     => /\ call.outcome = "returned"
        /\ call.ret = call.args[2]
        /\ call.args[1] \in DOMAIN Config
        /\ Config[call.args[1]] = call.args[2]
  /\ (/\ GlobalStringRead(first)
      /\ first.args[1] \notin DOMAIN first.pre.Config
      /\ GlobalStringRead(call)
      /\ call.args[1] = first.args[1])
     => call.ret = first.args[2]

\* C1 witness: a second global read of a name that a first read inserted,
\* made with another default, returns the first read's default
C1_Witness ==
  /\ GlobalStringRead(first)
  /\ first.args[1] \notin DOMAIN first.pre.Config
  /\ GlobalStringRead(call)
  /\ call.args[1] = first.args[1]
  /\ call.args[1] \in DOMAIN call.pre.Config
  /\ call.args[2] # first.args[2]
  /\ call.ret = first.args[2]

\* C2: whatever getters are called, every key present in the store at an
\* earlier point (before the last call, before any remembered call) is still
\* present with the same value: getters add keys and never overwrite or
\* remove one.
C2_StoreStability ==
  /\ call.op # "none"
     => \A k \in DOMAIN call.pre.Config :
          k \in DOMAIN Config /\ Config[k] = call.pre.Config[k]
  /\ Watched
     => \A k \in DOMAIN first.pre.Config :
          k \in DOMAIN Config /\ Config[k] = first.pre.Config[k]

\* C2 witness: the store held a key before a remembered call, a later call
\* was handed that key with another default than its value, and the store
\* has grown since
C2_Witness ==
  /\ Watched
  /\ DOMAIN first.pre.Config # {}
  /\ DOMAIN Config # DOMAIN first.pre.Config
  /\ GlobalStringRead(call)
  /\ call.args[1] \in DOMAIN first.pre.Config
  /\ call.args[2] # Config[call.args[1]]

\* An un-memoized getter called with a checker: it reads the store at every
\* call and writes neither the store nor a member
ScopedPlainRead(c) ==
  \/ c.op = "getCheckerOption"
  \/ c.op \in {"getOptionAsString", "getBooleanOption", "getOptionAsInteger"}
     /\ hasValue(c.args[3])

\* The call left the enum members it returns from holding a value: it decoded
\* them from tokens of their tables (TRUE of a getter that returns from none)
Decoded(c) ==
  LET Held(V) == hasValue(c.post.cells[V])
  IN  CASE c.op = "getUserMode" -> Held("UserMode")
        [] c.op = "getExplorationStrategy" -> Held("ExplorationStrategy")
        [] c.op = "getIPAMode" -> Held("IPAMode")
        [] c.op = "mayInlineCXXMemberFunction" ->
             /\ Held("IPAMode")
             /\ \/ Rank(IPAKindOrder, getValue(c.post.cells.IPAMode))
                     < Rank(IPAKindOrder, "IPAK_Inlining")
                \/ Held("CXXMemberInliningMode")
        [] OTHER -> TRUE

ExtStores ==
  { <<>>,
    (s_mode :> s_shallow),
    (ScopedKey(CheckerA, OptionX) :> s_false) }

\* The writes made from outside: <<key, value>>
ExternalWrites ==
  { <<s_mode, s_shallow>>, <<s_mode, s_sideways>>, <<s_ipa, s_none>>,
    <<s_cxx_inlining, s_methods>>, <<s_cfg_lifetime, s_true>>,
    <<s_graph_trim_interval, <<"5">>>>, <<ScopedKey(CheckerA, OptionX), <<"9">>>>,
    <<OptionX, s_false>>, <<s_ctu_index_name, <<"m">>>> }

NextExt ==
  \/ \E w \in ExternalWrites : ExternalSet(w[1], w[2])
  \/ Call_getUserMode
  \/ Call_getExplorationStrategy
  \/ Call_getIPAMode
  \/ Call_mayInlineCXXMemberFunction("CIMK_MemberFunctions")
  \/ Call_MemoBooleanAccessor("includeLifetimeInCFG")
  \/ Call_InlineBooleanAccessor("shouldInlineLambdas")
  \/ Call_UnsignedAccessor("getGraphTrimInterval")
  \/ Call_getMaxInlinableSize
  \/ Call_getBooleanOptionMemo("CheckerBool", OptionX, TRUE, Some(CheckerA), TRUE)
  \/ Call_getOptionAsUInt("CheckerUnsigned", OptionX, ToUnsigned(7), Some(CheckerA), FALSE)
  \/ Call_getOptionAsStringMemo("CheckerString", OptionX, <<"u">>, NoValue, FALSE)
  \/ Call_getCTUIndexName

InitExt ==
  InitSession(ExtStores, MaxCalls, TRUE)

SpecExt ==
  InitExt /\ [][NextExt]_vars

\* The getters that keep their result in one Optional<> member, and the member
SingleCellGetters ==
  ("getUserMode" :> "UserMode")
  @@ ("getExplorationStrategy" :> "ExplorationStrategy")
  @@ ("getIPAMode" :> "IPAMode")
  @@ ("getMaxInlinableSize" :> "MaxInlinableSize")
  @@ ("getMaxNodesPerTopLevelFunction" :> "MaxNodesPerTopLevelFunction")
  @@ ("getCTUDir" :> "CTUDir")
  @@ ("getCTUIndexName" :> "CTUIndexName")
  @@ [f \in DOMAIN MemoBooleanAccessors |-> MemoBooleanAccessors[f][1]]
  @@ [f \in DOMAIN InlineBooleanAccessors |-> InlineBooleanAccessors[f][1]]
  @@ [f \in DOMAIN UnsignedAccessors |-> UnsignedAccessors[f][1]]

\* A call of a getter that memoizes in one member
Memoizing(c) ==
  \/ c.op \in DOMAIN SingleCellGetters
  \/ c.op \in {"getBooleanOptionMemo", "getOptionAsStringMemo", "getOptionAsUInt"}

MemberOf(c) ==
  IF c.op \in DOMAIN SingleCellGetters THEN SingleCellGetters[c.op] ELSE c.args[1]

\* C6: every memoized cell starts unresolved; once resolved it never resets
\* or changes value; and once a cell is resolved, every later call of its
\* accessor returns the cached value without any store lookup, also after
\* the store entry of the option has been changed from outside.
C6_MemoizationDiscipline ==
  /\ call.op = "none" => \A m \in Members : cells[m] = NoValue
  /\ call.op # "none"
     => \A m \in Members :
          hasValue(call.pre.cells[m]) => cells[m] = call.pre.cells[m]
  /\ (Memoizing(call) /\ hasValue(call.pre.cells[MemberOf(call)]))
     => /\ call.outcome = "returned"
        /\ call.ret = getValue(call.pre.cells[MemberOf(call)])
        /\ call.lookups = <<>>
        /\ Config = call.pre.Config
  /\ (/\ call.op = "mayInlineCXXMemberFunction"
      /\ hasValue(call.pre.cells.IPAMode)
      /\ hasValue(call.pre.cells.CXXMemberInliningMode))
     => /\ call.outcome = "returned"
        /\ call.lookups = <<>>
        /\ call.ret =
             (/\ Rank(IPAKindOrder, getValue(call.pre.cells.IPAMode))
                   >= Rank(IPAKindOrder, "IPAK_Inlining")
              /\ Rank(CXXInlineableMemberKindOrder,
                      getValue(call.pre.cells.CXXMemberInliningMode))
                   >= Rank(CXXInlineableMemberKindOrder, call.args[1]))
  /\ (/\ Watched /\ first.outcome = "returned" /\ SameCall(first, call)
      /\ \/ Memoizing(first) /\ hasValue(first.post.cells[MemberOf(first)])
         \/ first.op = "mayInlineCXXMemberFunction" /\ Decoded(first))
     => call.outcome = "returned" /\ call.ret = first.ret

\* C6 witness: getCTUIndexName resolved its member, "ctu-index-name" was then
\* written from outside, and a later getCTUIndexName, served from the member
\* without a lookup, returns other characters than the first call did
C6_Witness ==
  /\ first.op = "getCTUIndexName" /\ call.op = "getCTUIndexName"
  /\ first.outcome = "returned" /\ call.outcome = "returned"
  /\ hasValue(call.pre.cells.CTUIndexName)
  /\ call.lookups = <<>>
  /\ Config[s_ctu_index_name] = <<"m">>
  /\ first.ret = s_externalFnMap_txt
  /\ call.ret # first.ret

(***************************************************************************)
(* SpecTyped: the typed getters on stores that hold one option each, with  *)
(* tokens inside and outside the option's domain.                          *)
(***************************************************************************)
\* <<key, value>> of the one-entry stores
TypedEntries ==
  { <<s_mode, s_shallow>>, <<s_mode, s_sideways>>,
    <<s_exploration_strategy, s_dfs>>, <<s_exploration_strategy, s_sideways>>,
    <<s_ipa, s_none>>, <<s_ipa, s_inlining>>, <<s_ipa, s_sideways>>,
    <<s_cxx_inlining, s_methods>>, <<s_cxx_inlining, s_constructors>>,
    <<s_cxx_inlining, s_sideways>>,
    <<s_max_inlinable_size, <<"5","0">>>>, <<s_max_inlinable_size, <<"-","1">>>>,
    <<s_max_inlinable_size, <<"1","x">>>>, <<s_max_inlinable_size, <<>>>>,
    <<s_max_nodes, <<"+","5">>>>, <<s_max_nodes, <<"-">>>>,
    <<s_max_nodes, <<"1","2">>>>, <<s_max_nodes, <<"-","7","0","0","0","0">>>>,
    <<s_graph_trim_interval, <<"-","2">>>>,
    <<s_graph_trim_interval, <<"0","5">>>>, <<s_graph_trim_interval, <<"5"," ">>>>,
    <<s_cfg_lifetime, s_true>>, <<s_cfg_lifetime, <<"T","R","U","E">>>>,
    <<s_cfg_lifetime, <<>>>>,
    <<s_inline_lambdas, s_false>>, <<s_inline_lambdas, <<"0">>>>,
    <<s_faux_bodies, s_false>>, <<s_faux_bodies, <<"n","o">>>>,
    <<OptionX, s_true>>, <<OptionX, s_false>>, <<OptionX, <<"1","2">>>>,
    <<OptionX, <<"v">>>>,
    <<ScopedKey(CheckerA, OptionX), s_false>>,
    <<ScopedKey(CheckerA, OptionX), <<"-","3">>>>,
    <<ScopedKey(CheckerA, OptionX), <<"1",".","5">>>> }

\* The empty store, the one-entry stores, and some two-entry stores
TypedStores ==
  {<<>>}
  \union {(e[1] :> e[2]) : e \in TypedEntries}
  \union { (s_mode :> s_shallow) @@ (s_ipa :> s_sideways),
           (s_mode :> s_sideways) @@ (s_ipa :> s_none),
           (s_ipa :> s_none) @@ (s_cxx_inlining :> s_sideways),
           (s_mode :> s_shallow) @@ (s_ipa :> s_dynamic),
           (s_mode :> s_shallow) @@ (s_max_inlinable_size :> <<"5","0">>),
           (s_mode :> s_shallow) @@ (s_max_nodes :> <<"1","2">>),
           (s_mode :> s_sideways) @@ (s_max_inlinable_size :> <<"5","0">>),
           (s_mode :> s_sideways) @@ (s_max_nodes :> <<"1","2">>),
           (s_ipa :> s_basic_inlining) @@ (s_cxx_inlining :> s_methods),
           (s_ipa :> s_inlining) @@ (s_cxx_inlining :> s_none) }

NextTyped ==
  \/ Call_getUserMode
  \/ Call_getExplorationStrategy
  \/ Call_getIPAMode
  \/ \E K \in {"CIMK_None", "CIMK_Constructors", "CIMK_Destructors",
                "CIMK_MemberFunctions"} :
       Call_mayInlineCXXMemberFunction(K)
  \/ Call_MemoBooleanAccessor("includeLifetimeInCFG")
  \/ Call_InlineBooleanAccessor("shouldInlineLambdas")
  \/ Call_PlainBooleanAccessor("shouldSynthesizeBodies")
  \/ Call_UnsignedAccessor("getGraphTrimInterval")
  \/ Call_getMaxInlinableSize
  \/ Call_getMaxNodesPerTopLevelFunction
  \/ \E d \in BOOLEAN, c \in {NoValue, Some(CheckerA)} :
       Call_getBooleanOption(OptionX, d, c, FALSE)
  \/ Call_getBooleanOptionMemo("CheckerBool", OptionX, TRUE, Some(CheckerA), TRUE)
  \/ \E c \in {NoValue, Some(CheckerA)} :
       Call_getOptionAsInteger(OptionX, 7, c, FALSE)
  \/ Call_getOptionAsUInt("CheckerUnsigned", OptionX, ToUnsigned(7), Some(CheckerA), FALSE)
  \/ \E c \in {NoValue, Some(CheckerA)} :
       Call_getOptionAsString(OptionX, <<"u">>, c, FALSE)

InitTyped ==
  InitSession(TypedStores, MaxTypedCalls, FALSE)

SpecTyped ==
  InitTyped /\ [][NextTyped]_vars

Range(seq) ==
  {seq[i] : i \in 1..Len(seq)}

(***************************************************************************)
(* What a typed call reads: its option name, checker and member, taken     *)
(* from the call's record.                                                 *)
(***************************************************************************)
\* The enum options: <<key, token table, member>>
EnumOptions ==
  { <<s_mode, UserModeTable, "UserMode">>,
    <<s_exploration_strategy, ExplorationStrategyTable, "ExplorationStrategy">>,
    <<s_ipa, IPAKindTable, "IPAMode">>,
    <<s_cxx_inlining, CXXInlineableMemberKindTable, "CXXMemberInliningMode">> }

\* The getters that resolve an enum option, themselves or through another
EnumResolvers ==
  {"getUserMode", "getExplorationStrategy", "getIPAMode", "mayInlineCXXMemberFunction",
   "getMaxInlinableSize", "getMaxNodesPerTopLevelFunction"}

\* The generic getters' arguments: <<name, default, checker, SearchInParents, member>>
GenericArgs(c) ==
  IF c.op \in {"getBooleanOptionMemo", "getOptionAsUInt", "getOptionAsStringMemo"}
  THEN <<c.args[2], c.args[3], c.args[4], c.args[5], Some(c.args[1])>>
  ELSE <<c.args[1], c.args[2], c.args[3], c.args[4], NoValue>>

\* A boolean getter's <<name, default, checker, SearchInParents, member>>
BooleanArgs(c) ==
  IF c.op \in DOMAIN MemoBooleanAccessors
  THEN LET a == MemoBooleanAccessors[c.op] IN <<a[2], a[3], NoValue, FALSE, Some(a[1])>>
  ELSE IF c.op \in DOMAIN InlineBooleanAccessors
  THEN LET a == InlineBooleanAccessors[c.op] IN <<a[2], a[3], NoValue, FALSE, Some(a[1])>>
  ELSE IF c.op \in DOMAIN PlainBooleanAccessors
  THEN LET a == PlainBooleanAccessors[c.op] IN <<a[1], a[2], NoValue, FALSE, NoValue>>
  ELSE GenericArgs(c)

IsBooleanGetter(c) ==
  c.op \in {"getBooleanOption", "getBooleanOptionMemo"}
           \union DOMAIN MemoBooleanAccessors \union DOMAIN InlineBooleanAccessors
           \union DOMAIN PlainBooleanAccessors

\* An integer getter's <<name, checker, SearchInParents, member>>
IntegerArgs(c) ==
  IF c.op \in DOMAIN UnsignedAccessors
  THEN LET a == UnsignedAccessors[c.op] IN <<a[2], NoValue, FALSE, Some(a[1])>>
  ELSE IF c.op = "getMaxInlinableSize"
  THEN <<s_max_inlinable_size, NoValue, FALSE, Some("MaxInlinableSize")>>
  ELSE IF c.op = "getMaxNodesPerTopLevelFunction"
  THEN <<s_max_nodes, NoValue, FALSE, Some("MaxNodesPerTopLevelFunction")>>
  ELSE LET g == GenericArgs(c) IN <<g[1], g[3], g[4], g[5]>>

IsIntegerGetter(c) ==
  c.op \in {"getOptionAsInteger", "getOptionAsUInt", "getMaxInlinableSize",
            "getMaxNodesPerTopLevelFunction"} \union DOMAIN UnsignedAccessors

\* The call finds its member empty, or has none: it resolves its option
Resolving(c, Member) ==
  hasValue(Member) => ~hasValue(c.pre.cells[getValue(Member)])

\* The store entries that a lookup of Name for checker C may read
Levels(Name, C, SearchInParents) ==
  IF ~hasValue(C) THEN {Name}
  ELSE {ScopedKey(P, Name) :
          P \in IF SearchInParents THEN DotPrefixes(getValue(C)) ELSE {getValue(C)}}

\* The string of the store that applies to Name for checker C, <<>> if none
\* does and <<string>> otherwise
Stored(Cfg, Name, C, SearchInParents) ==
  IF ~hasValue(C)
  THEN IF Name \in DOMAIN Cfg THEN Some(Cfg[Name]) ELSE NoValue
  ELSE LET Hits == PrefixHits(Cfg, getValue(C), Name)
                     \intersect (IF SearchInParents THEN DotPrefixes(getValue(C))
                                 ELSE {getValue(C)})
       IN  IF Hits = {} THEN NoValue
           ELSE Some(Cfg[ScopedKey(CHOOSE P \in Hits : \A Q \in Hits : Len(Q) <= Len(P),
                                   Name)])

\* An optional '-' and then one decimal digit or more
IsDecimal(Str) ==
  LET Body == IF Str # <<>> /\ Head(Str) = "-" THEN Tail(Str) ELSE Str
  IN  /\ Body # <<>>
      /\ \A i \in 1..Len(Body) :
           Body[i] \in {"0", "1", "2", "3", "4", "5", "6", "7", "8", "9"}

\* C7 as claimed: when the value that applies to "mode",
\* "exploration_strategy", "ipa" or "c++-inlining" is a token outside the
\* option's table, the call that resolves the option ends in the fatal
\* outcome: it returns no value and does not fall back to a default, and the
\* option's member stays empty.
C7_FatalEnumDomain ==
  \A o \in EnumOptions :
    (/\ call.op \in EnumResolvers
     /\ o[1] \in Range(call.lookups)
     /\ Config[o[1]] \notin DOMAIN o[2])
    => /\ call.outcome = "fatal"
       /\ pc = "aborted"
       /\ cells[o[3]] = NoValue

\* C7, where the code departs from it: built with NDEBUG, getUserMode read a
\* "mode" token outside the table and returned a value all the same
C7_Witness ==
  /\ NDEBUG
  /\ call.op = "getUserMode"
  /\ s_mode \in Range(call.lookups)
  /\ Config[s_mode] \notin DOMAIN UserModeTable
  /\ call.outcome = "returned"
  /\ pc = "running"

\* C8 as claimed: when the string that applies to an integer option is not a
\* syntactically valid base-10 signed integer, the integer getter ends in the
\* fatal outcome; it does not return the caller default as the boolean
\* getter does.
C8_FatalInvalidNumeric ==
  (IsIntegerGetter(call) /\ Resolving(call, IntegerArgs(call)[4]))
  => LET a == IntegerArgs(call)
         s == Stored(call.pre.Config, a[1], a[2], a[3])
     IN  (hasValue(s) /\ ~IsDecimal(getValue(s)))
         => /\ call.outcome = "fatal"
            /\ hasValue(a[4]) => cells[getValue(a[4])] = NoValue

\* C8, where the code departs from it: built with NDEBUG, getOptionAsInteger
\* read a string that is no integer and returned the caller's default
C8_Witness ==
  /\ NDEBUG
  /\ call.op = "getOptionAsInteger"
  /\ LET s == Stored(call.pre.Config, call.args[1], call.args[3], call.args[4])
     IN  hasValue(s) /\ ~IsDecimal(getValue(s))
  /\ call.outcome = "returned"
  /\ call.ret = call.args[2]

\* C9: for every boolean option, global or checker-scoped, the result is true
\* when the applying string is exactly "true", false when it is exactly
\* "false", and the caller's default for every other string; it is never the
\* fatal outcome, and the result is what the member caches.
C9_BooleanTolerance ==
  (IsBooleanGetter(call) /\ Resolving(call, BooleanArgs(call)[5]))
  => LET a   == BooleanArgs(call)
         s   == Stored(call.pre.Config, a[1], a[3], a[4])
         str == IF hasValue(s) THEN getValue(s) ELSE toString(a[2])
     IN  /\ call.outcome = "returned"
         /\ call.ret = IF str \in {s_true, s_false} THEN str = s_true ELSE a[2]
         /\ hasValue(a[5]) => cells[getValue(a[5])] = Some(call.ret)

\* C9 witness: a checker-scoped, memoized boolean read whose applying string
\* is in the store and is neither "true" nor "false": the default comes back
\* and is cached
C9_Witness ==
  /\ call.op = "getBooleanOptionMemo"
  /\ hasValue(call.args[4])
  /\ ~hasValue(call.pre.cells[call.args[1]])
  /\ hasValue(Stored(call.pre.Config, call.args[2], call.args[4], call.args[5]))
  /\ getValue(Stored(call.pre.Config, call.args[2], call.args[4], call.args[5]))
       \notin {s_true, s_false}
  /\ call.ret = call.args[3]
  /\ cells[call.args[1]] = Some(call.args[3])

\* No entry of the store applies to Name for checker C
Missing(Cfg, Name, C, SearchInParents) ==
  \A k \in Levels(Name, C, SearchInParents) : k \notin DOMAIN Cfg

\* The call looked a key up that the store did not hold
LookedUpMissing(c, Key) ==
  Key \in Range(c.lookups) /\ Key \notin DOMAIN c.pre.Config

\* C10: when the key of an option is absent from the store at its lookup, at
\* every scope level searched, the typed accessor (boolean, integer, enum,
\* string) does not end in the fatal outcome and returns the value its
\* default decodes to; for an option whose default comes from the mode, that
\* is the default of the mode the session resolved.
C10_MissingKeyNeverAnError ==
  /\ (IsBooleanGetter(call) /\ Resolving(call, BooleanArgs(call)[5]))
     => LET a == BooleanArgs(call)
        IN  Missing(call.pre.Config, a[1], a[3], a[4])
            => call.outcome = "returned" /\ call.ret = a[2]
  /\ (call.op \in {"getOptionAsInteger", "getOptionAsUInt", "getOptionAsString",
                   "getOptionAsStringMemo"}
      /\ Resolving(call, GenericArgs(call)[5]))
     => LET a == GenericArgs(call)
        IN  Missing(call.pre.Config, a[1], a[3], a[4])
            => call.outcome = "returned" /\ call.ret = a[2]
  /\ call.op = "getCheckerOption"
     => (Missing(call.pre.Config, call.args[2], Some(call.args[1]), call.args[4])
         => call.outcome = "returned" /\ call.ret = call.args[3])
  /\ call.op \in DOMAIN UnsignedAccessors
     => LET a == UnsignedAccessors[call.op]
        IN  LookedUpMissing(call, a[2])
            => call.outcome = "returned" /\ call.ret = ToUnsigned(a[3])
  /\ (call.op = "getMaxInlinableSize" /\ LookedUpMissing(call, s_max_inlinable_size))
     => /\ call.outcome = "returned"
        /\ hasValue(cells.UserMode)
           => call.ret = ToUnsigned(IF cells.UserMode = Some("UMK_Shallow")
                                    THEN 4 ELSE 100)
  /\ (call.op = "getMaxNodesPerTopLevelFunction" /\ LookedUpMissing(call, s_max_nodes))
     => /\ call.outcome = "returned"
        /\ hasValue(cells.UserMode)
           => call.ret = ToUnsigned(IF cells.UserMode = Some("UMK_Shallow")
                                    THEN 75000 ELSE 225000)
  /\ (call.op = "getUserMode" /\ LookedUpMissing(call, s_mode))
     => /\ call.outcome = "returned"
        /\ call.ret = "UMK_Deep"
        /\ cells.UserMode = Some("UMK_Deep")
  /\ (call.op = "getExplorationStrategy"
      /\ LookedUpMissing(call, s_exploration_strategy))
     => /\ call.outcome = "returned"
        /\ call.ret = "UnexploredFirstQueue"
  /\ (call.op = "getIPAMode" /\ LookedUpMissing(call, s_ipa))
     => /\ call.outcome = "returned"
        /\ hasValue(cells.UserMode)
           => call.ret = IF cells.UserMode = Some("UMK_Shallow")
                         THEN "IPAK_Inlining" ELSE "IPAK_DynamicDispatchBifurcate"
  /\ (call.op = "mayInlineCXXMemberFunction" /\ LookedUpMissing(call, s_cxx_inlining))
     => /\ call.outcome = "returned"
        /\ call.ret = (call.args[1] \in {"CIMK_None", "CIMK_Constructors",
                                         "CIMK_Destructors"})

\* C10 witness: getIPAMode on a store that holds neither "mode" nor "ipa"
\* returned the deep mode's default
C10_Witness ==
  /\ call.op = "getIPAMode"
  /\ s_mode \notin DOMAIN call.pre.Config
  /\ s_ipa \notin DOMAIN call.pre.Config
  /\ call.lookups = <<s_mode, s_ipa>>
  /\ call.outcome = "returned"
  /\ call.ret = "IPAK_DynamicDispatchBifurcate"

(***************************************************************************)
(* The mode-derived options and the member-inlining decision.              *)
(***************************************************************************)
\* The number a string of decimal digits with an optional '-' writes
Numeral(Str) ==
  LET Neg  == Str # <<>> /\ Head(Str) = "-"
      Body == IF Neg THEN Tail(Str) ELSE Str
      D(c) == CHOOSE n \in 0..9 :
                <<"0", "1", "2", "3", "4", "5", "6", "7", "8", "9">>[n + 1] = c
      v[i \in 0..Len(Body)] == IF i = 0 THEN 0 ELSE 10 * v[i - 1] + D(Body[i])
  IN  IF Neg THEN 0 - v[Len(Body)] ELSE v[Len(Body)]

\* n modulo 2^32 as <<high 16 bits, low 16 bits>>, for an int n
Mod2p32(n) ==
  IF n >= 0 THEN <<n \div 65536, n % 65536>>
  ELSE <<65535 - ((0 - (n + 1)) \div 65536), 65535 - ((0 - (n + 1)) % 65536)>>

\* The two numeric options whose default comes from the mode:
\* <<getter, key, member, Shallow default, Deep default>>
ModeNumerics ==
  { <<"getMaxInlinableSize", s_max_inlinable_size, "MaxInlinableSize", 4, 100>>,
    <<"getMaxNodesPerTopLevelFunction", s_max_nodes, "MaxNodesPerTopLevelFunction",
      75000, 225000>> }

\* C11: with no "max-inlinable-size" / "max-nodes" key in the store,
\* getMaxInlinableSize returns 4 and getMaxNodesPerTopLevelFunction 75000 when
\* the user mode is Shallow, 100 and 225000 when it is Deep (also when "mode"
\* is absent); when the numeric key is present its value is returned whatever
\* the mode, Shallow or Deep.
C11_ModeDerivedNumericBaselines ==
  \A o \in ModeNumerics :
    (/\ call.op = o[1]
     /\ ~hasValue(call.pre.cells[o[3]])
     /\ hasValue(cells.UserMode))
    => /\ s_mode \notin DOMAIN call.pre.Config => cells.UserMode = Some("UMK_Deep")
       /\ o[2] \notin DOMAIN call.pre.Config
          => /\ call.outcome = "returned"
             /\ call.ret = Mod2p32(IF cells.UserMode = Some("UMK_Shallow")
                                   THEN o[4] ELSE o[5])
       /\ (o[2] \in DOMAIN call.pre.Config /\ IsDecimal(call.pre.Config[o[2]]))
          => /\ call.outcome = "returned"
             /\ call.ret = Mod2p32(Numeral(call.pre.Config[o[2]]))

\* C11 witness: the mode is Shallow, "max-nodes" is absent and
\* getMaxNodesPerTopLevelFunction returned 75000
C11_Witness ==
  /\ call.op = "getMaxNodesPerTopLevelFunction"
  /\ cells.UserMode = Some("UMK_Shallow")
  /\ s_max_nodes \notin DOMAIN call.pre.Config
  /\ call.outcome = "returned"
  /\ call.ret = <<1, 9464>>

\* The enumerator each "ipa" token names
IPATokens ==
  (s_none :> "IPAK_None") @@ (s_basic_inlining :> "IPAK_BasicInlining")
  @@ (s_inlining :> "IPAK_Inlining") @@ (s_dynamic :> "IPAK_DynamicDispatch")
  @@ (s_dynamic_bifurcate :> "IPAK_DynamicDispatchBifurcate")

\* C12: with no "ipa" key in the store, getIPAMode returns Inlining when the
\* user mode is Shallow and DynamicDispatchBifurcate when it is Deep; when
\* "ipa" is present with one of the five tokens, the mode the token names is
\* returned whatever the user mode, Shallow or Deep.
C12_ModeDerivedIPADefault ==
  (/\ call.op = "getIPAMode"
   /\ ~hasValue(call.pre.cells.IPAMode)
   /\ hasValue(cells.UserMode))
  => /\ s_ipa \notin DOMAIN call.pre.Config
        => /\ call.outcome = "returned"
           /\ call.ret = IF cells.UserMode = Some("UMK_Shallow")
                         THEN "IPAK_Inlining" ELSE "IPAK_DynamicDispatchBifurcate"
           /\ cells.IPAMode = Some(call.ret)
     /\ (s_ipa \in DOMAIN call.pre.Config
         /\ call.pre.Config[s_ipa] \in DOMAIN IPATokens)
        => /\ call.outcome = "returned"
           /\ call.ret = IPATokens[call.pre.Config[s_ipa]]
           /\ cells.IPAMode = Some(call.ret)

\* C12 witness: the mode is Shallow, "ipa" is absent and getIPAMode returned
\* Inlining
C12_Witness ==
  /\ call.op = "getIPAMode"
  /\ call.pre.Config = (s_mode :> s_shallow)
  /\ call.lookups = <<s_mode, s_ipa>>
  /\ call.outcome = "returned"
  /\ call.ret = "IPAK_Inlining"

\* The place of each "ipa" token, of each "c++-inlining" token and of each
\* requested kind in the orders None < BasicInlining < Inlining <
\* DynamicDispatch < DynamicDispatchBifurcate and None < Constructors <
\* Destructors < MemberFunctions
IPAOrdinal ==
  (s_none :> 0) @@ (s_basic_inlining :> 1) @@ (s_inlining :> 2) @@ (s_dynamic :> 3)
  @@ (s_dynamic_bifurcate :> 4)

CXXOrdinal ==
  (s_none :> 0) @@ (s_constructors :> 1) @@ (s_destructors :> 2) @@ (s_methods :> 3)

KindOrdinal ==
  [CIMK_None |-> 0, CIMK_Constructors |-> 1, CIMK_Destructors |-> 2,
   CIMK_MemberFunctions |-> 3]

\* The token that applies to an option of the store Cfg, Dflt when it holds none
Applying(Cfg, Key, Dflt) ==
  IF Key \in DOMAIN Cfg THEN Cfg[Key] ELSE Dflt

\* The "ipa" token that applies in Cfg: the stored one, or the mode's default
ApplyingIPA(Cfg) ==
  Applying(Cfg, s_ipa,
           IF Applying(Cfg, s_mode, s_deep) = s_shallow
           THEN s_inlining ELSE s_dynamic_bifurcate)

\* Every token the store holds for "mode", "ipa" and "c++-inlining" is one of
\* the option's table
ValidConfiguration(Cfg) ==
  /\ Applying(Cfg, s_mode, s_deep) \in {s_shallow, s_deep}
  /\ ApplyingIPA(Cfg) \in DOMAIN IPAOrdinal
  /\ Applying(Cfg, s_cxx_inlining, s_destructors) \in DOMAIN CXXOrdinal

\* C13: for every requested kind K and every valid configuration,
\* mayInlineCXXMemberFunction(K) is true exactly when the interprocedural mode
\* is at least Inlining and the configured "c++-inlining" kind (default
\* destructors) is at least K; hence when it is true for K, a call for any
\* smaller kind is true as well.
C13_OrdinalContainment ==
  (call.op = "mayInlineCXXMemberFunction" /\ ValidConfiguration(call.pre.Config))
  => /\ call.outcome = "returned"
     /\ call.ret =
          (/\ IPAOrdinal[ApplyingIPA(call.pre.Config)] >= 2
           /\ CXXOrdinal[Applying(call.pre.Config, s_cxx_inlining, s_destructors)]
                >= KindOrdinal[call.args[1]])
     /\ call.ret
        => \A K2 \in DOMAIN KindOrdinal :
             KindOrdinal[K2] <= KindOrdinal[call.args[1]]
             => \A st \in Storage :
                  mayInlineCXXMemberFunction(Session(st), K2).ret = TRUE

\* C13 witness: "c++-inlining" is constructors, the interprocedural mode is at
\* least Inlining, and mayInlineCXXMemberFunction(CIMK_Destructors) is false
C13_Witness ==
  /\ call.op = "mayInlineCXXMemberFunction"
  /\ call.args = <<"CIMK_Destructors">>
  /\ call.pre.Config = (s_cxx_inlining :> s_constructors)
  /\ cells.IPAMode = Some("IPAK_DynamicDispatchBifurcate")
  /\ call.outcome = "returned"
  /\ call.ret = FALSE

\* C16: when the interprocedural mode is below Inlining,
\* mayInlineCXXMemberFunction returns false without resolving "c++-inlining":
\* the CXXMemberInliningMode member stays empty, no "c++-inlining" key is
\* looked up or inserted, and a "c++-inlining" token outside the table does
\* not make the call fatal.
C16_ShortCircuit ==
  (/\ call.op = "mayInlineCXXMemberFunction"
   /\ Applying(call.pre.Config, s_mode, s_deep) \in {s_shallow, s_deep}
   /\ ApplyingIPA(call.pre.Config) \in {s_none, s_basic_inlining})
  => /\ call.outcome = "returned"
     /\ call.ret = FALSE
     /\ pc = "running"
     /\ cells.CXXMemberInliningMode = NoValue
     /\ s_cxx_inlining \notin Range(call.lookups)
     /\ s_cxx_inlining \in DOMAIN Config <=> s_cxx_inlining \in DOMAIN call.pre.Config
     /\ s_cxx_inlining \in DOMAIN Config
        => Config[s_cxx_inlining] = call.pre.Config[s_cxx_inlining]

\* C16 witness: "ipa" is none and "c++-inlining" holds a token outside the
\* table; mayInlineCXXMemberFunction returned false, in the build with
\* assertions
C16_Witness ==
  /\ ~NDEBUG
  /\ call.op = "mayInlineCXXMemberFunction"
  /\ s_ipa \in DOMAIN call.pre.Config
  /\ call.pre.Config[s_ipa] = s_none
  /\ s_cxx_inlining \in DOMAIN Config
  /\ Config[s_cxx_inlining] \notin DOMAIN CXXOrdinal
  /\ call.outcome = "returned"
  /\ call.ret = FALSE
  /\ cells.CXXMemberInliningMode = NoValue

\* The enumerator each "mode" token names
ModeTokens ==
  (s_shallow :> "UMK_Shallow") @@ (s_deep :> "UMK_Deep")

\* C18 as claimed: in every state after getIPAMode has returned, the store
\* holds both "mode" and "ipa", and the tokens under them decode to the
\* values getUserMode and getIPAMode return; when "ipa" was absent the token
\* inserted is the mode's default, "inlining" or "dynamic-bifurcate".
C18_StoreReflectsDerivedDefaults ==
  (call.op = "getIPAMode" /\ call.outcome = "returned")
  => /\ s_mode \in DOMAIN Config
     /\ s_ipa \in DOMAIN Config
     /\ Config[s_mode] \in DOMAIN ModeTokens
     /\ Config[s_ipa] \in DOMAIN IPATokens
     /\ call.ret = IPATokens[Config[s_ipa]]
     /\ \A st \in Storage :
          /\ getUserMode(Session(st)).ret = ModeTokens[Config[s_mode]]
          /\ getIPAMode(Session(st)).ret = IPATokens[Config[s_ipa]]
     /\ s_ipa \notin DOMAIN call.pre.Config
        => Config[s_ipa] = IF Config[s_mode] = s_shallow
                           THEN s_inlining ELSE s_dynamic_bifurcate

\* C18, where the code departs from it: built with NDEBUG, getIPAMode returned
\* on a store whose "mode" token names no mode, and inserted the empty string
\* under "ipa"
C18_Witness ==
  /\ NDEBUG
  /\ call.op = "getIPAMode"
  /\ call.outcome = "returned"
  /\ s_mode \in DOMAIN Config
  /\ Config[s_mode] \notin DOMAIN ModeTokens
  /\ s_ipa \notin DOMAIN call.pre.Config
  /\ Config[s_ipa] = <<>>

\* The getters that take a default from the mode: <<getter, key, member>>
ModeDependents ==
  { <<"getIPAMode", s_ipa, "IPAMode">>,
    <<"getMaxInlinableSize", s_max_inlinable_size, "MaxInlinableSize">>,
    <<"getMaxNodesPerTopLevelFunction", s_max_nodes, "MaxNodesPerTopLevelFunction">> }

\* C19 as claimed: the first call of getIPAMode, getMaxInlinableSize or
\* getMaxNodesPerTopLevelFunction resolves the user mode before it looks up
\* its own key, so a "mode" token outside the table makes the call end in the
\* fatal outcome even when its own key holds a valid value, and the
\* dependent member then stays empty.
C19_ModeBeforeDependents ==
  \A o \in ModeDependents :
    (/\ call.op = o[1]
     /\ ~hasValue(call.pre.cells[o[3]])
     /\ ~hasValue(call.pre.cells.UserMode))
    => /\ call.lookups # <<>> /\ call.lookups[1] = s_mode
       /\ (s_mode \in DOMAIN call.pre.Config
           /\ call.pre.Config[s_mode] \notin DOMAIN ModeTokens)
          => /\ call.outcome = "fatal"
             /\ call.lookups = <<s_mode>>
             /\ cells[o[3]] = NoValue

\* C19, where the code departs from it: built with NDEBUG, getIPAMode met a
\* "mode" token outside the table, went on to read the valid "ipa" token and
\* cached its mode
C19_Witness ==
  /\ NDEBUG
  /\ call.op = "getIPAMode"
  /\ call.pre.Config = (s_mode :> s_sideways) @@ (s_ipa :> s_none)
  /\ call.lookups = <<s_mode, s_ipa>>
  /\ call.outcome = "returned"
  /\ cells.UserMode = NoValue
  /\ cells.IPAMode = Some("IPAK_None")

\* The integer getters that keep the int in an Optional<unsigned> member
IsUnsignedGetter(c) ==
  IsIntegerGetter(c) /\ c.op # "getOptionAsInteger"

\* C20: the unsigned numeric accessors parse the configured string as a
\* signed integer and keep it in an unsigned member: a syntactically valid
\* negative value n is not rejected and not replaced by the default, it is
\* returned (and cached) as n modulo 2^32.
C20_NegativeBudgetsWrap ==
  (IsUnsignedGetter(call) /\ Resolving(call, IntegerArgs(call)[4]))
  => LET a == IntegerArgs(call)
         s == Stored(call.pre.Config, a[1], a[2], a[3])
     IN  (hasValue(s) /\ IsDecimal(getValue(s)))
         => /\ call.outcome = "returned"
               => /\ call.ret = Mod2p32(Numeral(getValue(s)))
                  /\ cells[getValue(a[4])] = Some(call.ret)
            /\ call.outcome = "fatal"
               => /\ call.lookups = <<s_mode>>
                  /\ Config[s_mode] \notin DOMAIN ModeTokens

\* C20 witness: "max-nodes" is "-70000" and getMaxNodesPerTopLevelFunction
\* returned 2^32 - 70000 = 65534 * 2^16 + 61072
C20_Witness ==
  /\ call.op = "getMaxNodesPerTopLevelFunction"
  /\ call.pre.Config = (s_max_nodes :> <<"-","7","0","0","0","0">>)
  /\ call.outcome = "returned"
  /\ call.ret = <<65534, 61072>>
  /\ cells.MaxNodesPerTopLevelFunction = Some(<<65534, 61072>>)

(***************************************************************************)
(* SpecCheckers: getRegisteredCheckers over every table of up to MaxChecks *)
(* names.                                                                  *)
(***************************************************************************)
Call_getRegisteredCheckers(IncludeExperimental) ==
  Commit("getRegisteredCheckers", <<IncludeExperimental>>,
         Ret(Sigma, getRegisteredCheckers(StaticAnalyzerChecks, IncludeExperimental)))

\* The tables of up to MaxChecks names, duplicates allowed
CheckerTables ==
  UNION {[1..n -> {CheckNames[i] : i \in 1..Len(CheckNames)}] : n \in 0..MaxChecks}

InitCheckers ==
  /\ Config = <<>>
  /\ cells = [m \in Members |-> NoValue]
  /\ views = [V \in StringMembers |-> NoValue]
  /\ dirs = {}
  /\ pc = "running"
  /\ call = NoCall
  /\ first = NoCall
  /\ budget = MaxCalls
  /\ NDEBUG \in BOOLEAN
  /\ StaticAnalyzerChecks \in CheckerTables

NextCheckers ==
  \E IncludeExperimental \in BOOLEAN :
    Call_getRegisteredCheckers(IncludeExperimental)

SpecCheckers ==
  InitCheckers /\ [][NextCheckers]_vars

\* Name begins with the characters of Prefix
BeginsWith(Name, Prefix) ==
  \A i \in 1..Len(Prefix) : i <= Len(Name) /\ Name[i] = Prefix[i]

\* The entries of Table that a call with IncludeExperimental keeps
Kept(Name, IncludeExperimental) ==
  /\ ~BeginsWith(Name, <<"d","e","b","u","g",".">>)
  /\ IncludeExperimental \/ ~BeginsWith(Name, <<"a","l","p","h","a",".">>)

\* Sub is Whole with some entries left out, the others in their order
RECURSIVE IsSubsequence(_, _)
IsSubsequence(Sub, Whole) ==
  IF Sub = <<>> THEN TRUE
  ELSE IF Whole = <<>> THEN FALSE
  ELSE IF Head(Sub) = Head(Whole) THEN IsSubsequence(Tail(Sub), Tail(Whole))
  ELSE IsSubsequence(Sub, Tail(Whole))

\* C14: getRegisteredCheckers(IncludeExperimental) returns exactly the
\* entries of the table that do not start with "debug." and, unless
\* IncludeExperimental is true, do not start with "alpha.", in the table's
\* order and with duplicates kept; the result for false is a subsequence of
\* the result for true.
C14_CheckerFiltering ==
  call.op = "getRegisteredCheckers"
  => /\ call.outcome = "returned"
     /\ call.ret = SelectSeq(StaticAnalyzerChecks,
                             LAMBDA Name : Kept(Name, call.args[1]))
     /\ Config = call.pre.Config /\ cells = call.pre.cells
     /\ (Watched /\ first.op = "getRegisteredCheckers"
         /\ ~first.args[1] /\ call.args[1])
        => IsSubsequence(first.ret, call.ret)

\* C14 witness: the table lists an "alpha." name twice and a "debug." name;
\* an earlier call without experimental checkers left them all out, this call
\* with them returned both "alpha." entries
C14_Witness ==
  /\ call.op = "getRegisteredCheckers"
  /\ call.args = <<TRUE>>
  /\ StaticAnalyzerChecks = <<CheckNames[2], CheckNames[3], CheckNames[2]>>
  /\ call.ret = <<CheckNames[2], CheckNames[2]>>
  /\ first.op = "getRegisteredCheckers"
  /\ first.args = <<FALSE>>
  /\ first.ret = <<>>

(***************************************************************************)
(* SpecCTU: the cross-translation-unit getters, with directories that      *)
(* appear and disappear between the calls.                                 *)
(***************************************************************************)
\* The paths "ctu-dir" may name
CTUPaths ==
  {<<"p">>, <<"q">>}

CTUStores ==
  {<<>>, (s_ctu_dir :> <<>>)} \union {(s_ctu_dir :> p) : p \in CTUPaths}

\* The file system changes under the session: Path becomes a directory, or
\* stops being one
FsChange(Path) ==
  /\ pc = "running"
  /\ budget > 0
  /\ budget' = budget - 1
  /\ dirs' = IF Path \in dirs THEN dirs \ {Path} ELSE dirs \union {Path}
  /\ call' = [op |-> "fs", args |-> <<Path>>, outcome |-> "returned",
              ret |-> <<>>, lookups |-> <<>>,
              pre |-> [Config |-> Config, cells |-> cells],
              post |-> [cells |-> cells], probes |-> <<>>]
  /\ UNCHANGED <<Config, cells, views, pc, first, NDEBUG, StaticAnalyzerChecks>>

InitCTU ==
  /\ Config \in CTUStores
  /\ cells = [m \in Members |-> NoValue]
  /\ dirs \in SUBSET CTUPaths
  /\ pc = "running"
  /\ call = NoCall
  /\ first = NoCall
  /\ budget = MaxCalls
  /\ NDEBUG \in BOOLEAN
  /\ views = [V \in StringMembers |-> NoValue]
  /\ StaticAnalyzerChecks = <<CheckNames[1], CheckNames[2], CheckNames[3]>>

NextCTU ==
  \/ Call_getCTUDir
  \/ Call_getCTUIndexName
  \/ Call_InlineBooleanAccessor("naiveCTUEnabled")
  \/ \E Path \in CTUPaths : FsChange(Path)

SpecCTU ==
  InitCTU /\ [][NextCTU]_vars

\* C15: the first getCTUDir returns the configured "ctu-dir" string verbatim
\* when the path is a directory at that call, and the empty string otherwise,
\* also when the key is absent; the probe is made at most once per session:
\* every later call returns the first result without probing, also when the
\* directory has appeared or disappeared since.
C15_CTUDirProbe ==
  call.op = "getCTUDir"
  => /\ call.outcome = "returned"
     /\ ~hasValue(call.pre.cells.CTUDir)
        => LET Path == IF s_ctu_dir \in DOMAIN call.pre.Config
                       THEN call.pre.Config[s_ctu_dir] ELSE <<>>
           IN  /\ call.ret = IF Path \in dirs THEN Path ELSE <<>>
               /\ call.probes = <<Path>>
               /\ cells.CTUDir = Some(call.ret)
     /\ hasValue(call.pre.cells.CTUDir)
        => /\ call.ret = getValue(call.pre.cells.CTUDir)
           /\ call.probes = <<>>
           /\ call.lookups = <<>>
           /\ cells.CTUDir = call.pre.cells.CTUDir
     /\ (Watched /\ first.op = "getCTUDir") => call.ret = first.ret

\* C15 witness: the first getCTUDir found the directory and returned its
\* path; the directory has gone since, and this getCTUDir returns the path
\* still, without a probe
C15_Witness ==
  /\ first.op = "getCTUDir"
  /\ first.ret = <<"p">>
  /\ first.probes = <<<<"p">>>>
  /\ call.op = "getCTUDir"
  /\ <<"p">> \notin dirs
  /\ call.probes = <<>>
  /\ call.ret = <<"p">>

(***************************************************************************)
(* Checker-scoped reads and the global entries.                            *)
(***************************************************************************)
\* The checker and the option name of a checker-scoped read
ScopeOf(c) ==
  IF c.op = "getCheckerOption"
  THEN [checker |-> c.args[1], option |-> c.args[2]]
  ELSE [checker |-> getValue(c.args[3]), option |-> c.args[1]]

\* The session as it was before the last call
Before ==
  [Sigma EXCEPT !.Config = call.pre.Config, !.cells = call.pre.cells]

\* C17: a checker-scoped read (getCheckerOption, or getOptionAsString /
\* getBooleanOption / getOptionAsInteger called with a checker) returns and
\* leaves the store and every member as they were, whether it found a key or
\* not; every key it consults is "<prefix of the checker name>:<option>",
\* never the bare option name; and a global read of the option name made
\* after it returns what it would have returned before it, and leaves the
\* store it would have left.
C17_ScopedReadsAreReadOnly ==
  ScopedPlainRead(call)
  => LET checker == ScopeOf(call).checker
         option  == ScopeOf(call).option
     IN  /\ Config = call.pre.Config
         /\ cells = call.pre.cells
         /\ call.lookups # <<>>
         /\ option \notin Range(call.lookups)
         /\ \A i \in 1..Len(call.lookups) :
              \E k \in 0..Len(checker) :
                call.lookups[i] = ScopedKey(SubSeq(checker, 1, k), option)
         /\ \A d \in SessionDefaults :
              LET after  == getOptionAsString(Sigma, option, d, NoValue, FALSE)
                  before == getOptionAsString(Before, option, d, NoValue, FALSE)
              IN  /\ after.ret = before.ret
                  /\ after.st.Config = before.st.Config

\* C17 witness: a scoped read of "x" for checker "a" found no key and
\* returned its default "u"; the store still has no "x", and the global read
\* of "x" with default "v" that follows returns "v"
C17_Witness ==
  /\ first.op = "getOptionAsString" /\ first.args = <<OptionX, <<"u">>, Some(CheckerA), FALSE>>
  /\ first.pre.Config = <<>>
  /\ first.ret = <<"u">>
  /\ call.op = "getOptionAsString" /\ call.args = <<OptionX, <<"v">>, NoValue, FALSE>>
  /\ call.pre.Config = <<>>
  /\ call.ret = <<"v">>
  /\ Config = (OptionX :> <<"v">>)
====
